---- MODULE Spec2Model ----
(***************************************************************************)
(* Expense Tracker API: the expense store, the expense CRUD handlers, the  *)
(* list of expenses, the statistics, the four report handlers (category,   *)
(* monthly, trends, summary), whole and query by query, the user           *)
(* collection with registration and login, the tokens, the authenticate    *)
(* guard of the protected routes and the error handler.                    *)
(*                                                                         *)
(* Money is counted in cents (the validation schema keeps 2 decimals), a   *)
(* percentage in hundredths of a percent, and time in units of             *)
(* 1/UnitsPerDay of a day since 1970-01-01T00:00Z.  The server's local     *)
(* time zone is UTC.  Arithmetic on amounts is exact decimal arithmetic.   *)
(***************************************************************************)
EXTENDS Integers, Sequences, FiniteSets, TLC

VARIABLES
  expenses,   \* the Expense collection, in insertion order
  nextId,     \* the next _id the store hands out
  now,        \* the wall clock, new Date()
  req,        \* the request the last handler served
  resp,       \* the response the last handler sent
  dbCalls,    \* the store operations the last handler issued, in order
  failed,     \* the positions in dbCalls of the operations the store rejected
  users,      \* the user collection, in insertion order
  pending,    \* the registrations between their findOne and their save
  session,    \* what authenticate made of the request now at the guarded routes
  elapsed,    \* the clock has moved since the last response
  repeat,     \* the last request repeated the report request before it:
              \* "no", "same" (at the same clock reading) or "later"
  walk,       \* the pages of the list of expenses read one after the other
              \* since the first, each as the ids of its expenses
  inflight    \* the report whose store queries are being answered one by one:
              \* what the queries returned, the collection the first one read
              \* and whether the others read the same

vars ==
  <<expenses, nextId, now, req, resp, dbCalls, failed, elapsed, repeat,
    users, pending, session, walk, inflight>>

-----------------------------------------------------------------------------
(* Bounds of the model *)

MaxExpenses == 2   \* expenses created in a behaviour of Spec
MaxRecords == 3    \* expenses created in a behaviour of the one-report specifications
MaxTicks == 2      \* clock ticks in a behaviour
UnitsPerDay == 2   \* clock readings per day

(* Program constants *)

DefaultDays == 30
MonthsPerYear == 12
MaxAmount == 1000000 * 100
TopLimit == 5

-----------------------------------------------------------------------------
(* The calendar: JavaScript Date and the store's $year/$month/$dayOfMonth *)

IsLeap(y) == (y % 4 = 0 /\ y % 100 # 0) \/ y % 400 = 0

\* days from 0001-01-01 to the first day of year y
DaysBeforeYear(y) ==
  365 * (y - 1) + ((y - 1) \div 4) - ((y - 1) \div 100) + ((y - 1) \div 400)

\* day number (since 1970-01-01) of January 1 of year y
YearStart(y) == DaysBeforeYear(y) - DaysBeforeYear(1970)

MonthLen(y, m) ==
  IF m = 2 THEN (IF IsLeap(y) THEN 29 ELSE 28)
  ELSE IF m \in {4, 6, 9, 11} THEN 30 ELSE 31

\* days of a common year before the first day of each month
CumulativeDays == <<0, 31, 59, 90, 120, 151, 181, 212, 243, 273, 304, 334>>

DaysBeforeMonth(y, m) == CumulativeDays[m] + (IF m > 2 /\ IsLeap(y) THEN 1 ELSE 0)

\* new Date(y, m - 1, d) at local midnight, and a time of day u added to it
DayNumber(y, m, d) == YearStart(y) + DaysBeforeMonth(y, m) + (d - 1)
At(y, m, d, u) == DayNumber(y, m, d) * UnitsPerDay + u

DayOf(t) == t \div UnitsPerDay

YearOfDay(d) ==
  CHOOSE y \in (1970 + (d \div 366)) .. (1970 + (d \div 365) + 1) :
    YearStart(y) <= d /\ d < YearStart(y + 1)

\* { $year: "$date" }, also Date.getFullYear()
YearOf(t) == YearOfDay(DayOf(t))

\* { $month: "$date" }, 1..12; Date.getMonth() is MonthOf(t) - 1
MonthOf(t) ==
  LET y == YearOf(t)
      doy == DayOf(t) - YearStart(y)
  IN CHOOSE m \in 1..12 :
       DaysBeforeMonth(y, m) <= doy /\ doy < DaysBeforeMonth(y, m) + MonthLen(y, m)

\* { $dayOfMonth: "$date" }
DayOfMonthOf(t) ==
  LET y == YearOf(t) IN DayOf(t) - YearStart(y) - DaysBeforeMonth(y, MonthOf(t)) + 1

-----------------------------------------------------------------------------
(* Rounding *)

\* Math.round(n / d) for d > 0: the nearest integer, a tie going up
MathRound(n, d) == (2 * n + d) \div (2 * d)

\* { $round: [n / d, 2] } of an amount in cents: the nearest cent, a tie
\* going to the even cent
MongoRound(n, d) ==
  LET q == n \div d
      r == n % d
  IN IF 2 * r < d THEN q
     ELSE IF 2 * r > d THEN q + 1
     ELSE IF q % 2 = 0 THEN q ELSE q + 1

-----------------------------------------------------------------------------
(* Sequences *)

RECURSIVE SumSeq(_)
SumSeq(s) == IF s = <<>> THEN 0 ELSE Head(s) + SumSeq(Tail(s))

RECURSIVE Distinct(_)
\* the distinct values of s, in order of first occurrence ($group)
Distinct(s) ==
  IF s = <<>> THEN <<>>
  ELSE LET rest == Distinct(SubSeq(s, 1, Len(s) - 1))
           x == s[Len(s)]
       IN IF \E i \in 1..Len(rest) : rest[i] = x THEN rest ELSE Append(rest, x)

Amounts(s) == [i \in 1..Len(s) |-> s[i].amount]
TotalAmounts(s) == [i \in 1..Len(s) |-> s[i].totalAmount]
\* one for every entry, whatever its count
CountsAsOne(s) == [i \in 1..Len(s) |-> 1]

Counts(s) == [i \in 1..Len(s) |-> s[i].count]

\* the whole of s, whatever n
TakeAll(s, n) == s

Take(s, n) == SubSeq(s, 1, IF Len(s) < n THEN Len(s) ELSE n)

\* x put at the end of s, whatever its totalAmount
InsertLast(s, x) == Append(s, x)

RECURSIVE InsertDesc(_, _)
\* x put into s, sorted by totalAmount descending, behind its equals
InsertDesc(s, x) ==
  IF s = <<>> THEN <<x>>
  ELSE IF Head(s).totalAmount >= x.totalAmount
       THEN <<Head(s)>> \o InsertDesc(Tail(s), x)
       ELSE <<x>> \o s

RECURSIVE SortByTotalDesc(_)
\* { $sort: { totalAmount: -1 } }; equal totals keep their group order
SortByTotalDesc(s) ==
  IF s = <<>> THEN <<>>
  ELSE InsertDesc(SortByTotalDesc(SubSeq(s, 1, Len(s) - 1)), s[Len(s)])

-----------------------------------------------------------------------------
(* Requests, query parameters and responses *)

UserIds == {"A", "B"}

\* the ExpenseCategory enumeration
Categories ==
  <<"Food", "Transportation", "Entertainment", "Healthcare", "Shopping",
    "Utilities", "Education", "Travel", "Other">>

CategorySet == {Categories[i] : i \in 1..Len(Categories)}

\* a query-string or body field: absent, not parseable, or a value
Absent == [kind |-> "absent", val |-> 0]
Invalid == [kind |-> "invalid", val |-> 0]
Value(v) == [kind |-> "value", val |-> v]

\* the field k of a body, absent when the body has no such key
Field(body, k) == IF k \in DOMAIN body THEN body[k] ELSE Absent

NoData == [kind |-> "none"]

\* no token at all
NoToken == [present |-> FALSE, signed |-> FALSE, userId |-> "", email |-> "", exp |-> 0]

\* a request without an Authorization header
NoHeader == [kind |-> "absent", token |-> NoToken]

\* no report is between its queries
NoReport == [op |-> "none", step |-> "none"]

\* no request is between authenticate and its handler
NoSession == [route |-> "", header |-> NoHeader, userId |-> ""]

Respond(status, message, data) ==
  [status |-> status, success |-> status < 400, message |-> message, data |-> data]

ValidationError == Respond(400, "Validation error", NoData)

Request(op, userId, query) == [op |-> op, userId |-> userId, query |-> query]

\* whether this report request repeats the request answered just before it,
\* and whether the clock has moved in between
Repeats(op, userId, query) ==
  IF req = Request(op, userId, query) /\ resp.status = 200
  THEN (IF elapsed THEN "later" ELSE "same")
  ELSE "no"

\* the parameter never read
AlwaysFallback(p, fallback) == fallback

\* parseInt(x) || fallback
ParseIntOr(p, fallback) ==
  IF p.kind = "value" /\ p.val # 0 THEN p.val ELSE fallback

\* new Date(year, ...) reads a year 0..99 as 1900 + year
JsYear(y) == IF 0 <= y /\ y <= 99 THEN 1900 + y ELSE y

\* a $match that leaves the userId out
OwnsAny(e, userId) == TRUE

\* $match: { userId: new Types.ObjectId(userId) }
Owns(e, userId) == e.userId = userId

\* a range that leaves its last instant out
InRangeOpenEnd(e, from, to) == e.date >= from /\ e.date < to

\* $match: { date: { $gte: from, $lte: to } }
InRange(e, from, to) == e.date >= from /\ e.date <= to

-----------------------------------------------------------------------------
(* Category report *)

\* a schema without .min(Joi.ref("startDate"))
ReportQueryUnordered(query) ==
  query.startDate.kind = "value" /\ query.endDate.kind = "value"

\* reportQuerySchema.validate(req.query) reports no error
ReportQueryValid(query) ==
  /\ query.startDate.kind = "value"
  /\ query.endDate.kind = "value"
  /\ query.endDate.val >= query.startDate.val

\* the aggregation pipeline of getCategoryReport: $match, $group, $project, $sort
CategoryTotals(store, userId, startDate, endDate) ==
  LET matched == SelectSeq(store, LAMBDA e :
                   Owns(e, userId) /\ InRange(e, startDate, endDate))
      keys == Distinct([i \in 1..Len(matched) |-> matched[i].category])
      group(c) == SelectSeq(matched, LAMBDA e : e.category = c)
      project(c) ==
        LET g == group(c) IN
        [category |-> c,
         totalAmount |-> MongoRound(SumSeq(Amounts(g)), 1),
         count |-> Len(g),
         avgAmount |-> MongoRound(SumSeq(Amounts(g)), Len(g)),
         expenses |-> [i \in 1..Len(g) |->
                         [id |-> g[i].id, title |-> g[i].title,
                          amount |-> g[i].amount, date |-> g[i].date]]]
  IN SortByTotalDesc([i \in 1..Len(keys) |-> project(keys[i])])

\* a percentage cut off after 2 decimals instead of rounded
PercentageTruncated(totalAmount, grandTotal) ==
  IF grandTotal > 0 THEN (totalAmount * 100 * 100) \div grandTotal ELSE 0

\* percentage of one category, in hundredths of a percent
Percentage(totalAmount, grandTotal) ==
  IF grandTotal > 0 THEN MathRound(totalAmount * 100 * 100, grandTotal) ELSE 0

\* the data of the category report built from the pipeline's output
CategoryReportData(categoryTotals, startDate, endDate) ==
  LET grandTotal == SumSeq(TotalAmounts(categoryTotals))
      totalCount == SumSeq(Counts(categoryTotals))
  IN [kind |-> "category",
      dateRange |-> [startDate |-> startDate, endDate |-> endDate],
      summary |->
        [grandTotal |-> MathRound(grandTotal, 1),
         totalCount |-> totalCount,
         avgExpense |-> IF totalCount > 0 THEN MathRound(grandTotal, totalCount) ELSE 0,
         categoriesCount |-> Len(categoryTotals)],
      categoryBreakdown |->
        [i \in 1..Len(categoryTotals) |->
           [category |-> categoryTotals[i].category,
            totalAmount |-> categoryTotals[i].totalAmount,
            count |-> categoryTotals[i].count,
            avgAmount |-> categoryTotals[i].avgAmount,
            expenses |-> categoryTotals[i].expenses,
            percentage |-> Percentage(categoryTotals[i].totalAmount, grandTotal)]]]

\* what getCategoryReport answers over a store
CategoryReport(store, userId, query) ==
  IF ~ReportQueryValid(query)
  THEN ValidationError
  ELSE Respond(200, "Category report generated successfully",
         CategoryReportData(
           CategoryTotals(store, userId, query.startDate.val, query.endDate.val),
           query.startDate.val, query.endDate.val))

getCategoryReport(userId, query) ==
  /\ req' = Request("categoryReport", userId, query)
  /\ repeat' = Repeats("categoryReport", userId, query)
  /\ walk' = <<>>
  /\ UNCHANGED inflight
  /\ elapsed' = FALSE
  /\ session' = NoSession
  /\ UNCHANGED <<users, pending>>
  /\ resp' = CategoryReport(expenses, userId, query)
  /\ dbCalls' = IF ReportQueryValid(query) THEN <<"aggregate">> ELSE <<>>
  /\ failed' = {}
  /\ UNCHANGED <<expenses, nextId, now>>

-----------------------------------------------------------------------------
(* Monthly report *)

monthNames ==
  <<"January", "February", "March", "April", "May", "June", "July", "August",
    "September", "October", "November", "December">>

\* the aggregation pipeline of getMonthlyReport
MonthlyTotals(store, userId, year) ==
  LET from == At(JsYear(year), 1, 1, 0)
      to == At(JsYear(year), 12, 31, 0)
      matched == SelectSeq(store, LAMBDA e : Owns(e, userId) /\ InRange(e, from, to))
      group(m) == SelectSeq(matched, LAMBDA e : MonthOf(e.date) = m)
      project(m) ==
        LET g == group(m) IN
        [month |-> m,
         totalAmount |-> MongoRound(SumSeq(Amounts(g)), 1),
         count |-> Len(g),
         avgAmount |-> IF Len(g) = 0 THEN 0 ELSE MongoRound(SumSeq(Amounts(g)), Len(g))]
  IN \* the groups that exist, sorted by month ascending
     SelectSeq([m \in 1..12 |-> project(m)], LAMBDA t : t.count > 0)

\* the months of the pipeline's output alone, no month filled in
OnlyActiveMonths(monthlyTotals) ==
  [i \in 1..Len(monthlyTotals) |->
     [month |-> monthlyTotals[i].month,
      monthName |-> monthNames[monthlyTotals[i].month],
      totalAmount |-> monthlyTotals[i].totalAmount,
      count |-> monthlyTotals[i].count,
      avgAmount |-> monthlyTotals[i].avgAmount]]

\* monthNames.map(...): one entry per month name, filled from the pipeline
CompleteMonthlyData(monthlyTotals) ==
  [index \in 1..Len(monthNames) |->
     LET found == SelectSeq(monthlyTotals, LAMBDA t : t.month = index) IN
     [month |-> index,
      monthName |-> monthNames[index],
      totalAmount |-> IF found # <<>> THEN found[1].totalAmount ELSE 0,
      count |-> IF found # <<>> THEN found[1].count ELSE 0,
      avgAmount |-> IF found # <<>> THEN found[1].avgAmount ELSE 0]]

\* an average over the months that have an expense
ActiveDivisor(monthlyTotals) == IF Len(monthlyTotals) = 0 THEN 1 ELSE Len(monthlyTotals)

\* the divisor of monthlyAverage
AverageDivisor(monthlyTotals) == MonthsPerYear

\* every month counted as active
AllMonths(monthlyTotals) == MonthsPerYear

\* activeMonths
ActiveMonths(monthlyTotals) == Len(monthlyTotals)

MonthlyReportData(monthlyTotals, year) ==
  LET yearlyTotal == SumSeq(TotalAmounts(monthlyTotals))
      yearlyCount == SumSeq(Counts(monthlyTotals))
  IN [kind |-> "monthly",
      year |-> year,
      summary |->
        [yearlyTotal |-> MathRound(yearlyTotal, 1),
         yearlyCount |-> yearlyCount,
         monthlyAverage |-> MathRound(yearlyTotal, AverageDivisor(monthlyTotals)),
         activeMonths |-> ActiveMonths(monthlyTotals)],
      monthlyBreakdown |-> CompleteMonthlyData(monthlyTotals)]

\* what getMonthlyReport answers over a store at a clock reading
MonthlyReport(store, clock, userId, query) ==
  LET year == ParseIntOr(query.year, YearOf(clock)) IN
  Respond(200, "Monthly report generated successfully",
    MonthlyReportData(MonthlyTotals(store, userId, year), year))

getMonthlyReport(userId, query) ==
  /\ req' = Request("monthlyReport", userId, query)
  /\ repeat' = Repeats("monthlyReport", userId, query)
  /\ walk' = <<>>
  /\ UNCHANGED inflight
  /\ elapsed' = FALSE
  /\ session' = NoSession
  /\ UNCHANGED <<users, pending>>
  /\ resp' = MonthlyReport(expenses, now, userId, query)
  /\ dbCalls' = <<"aggregate">>
  /\ failed' = {}
  /\ UNCHANGED <<expenses, nextId, now>>

-----------------------------------------------------------------------------
(* Expense trends *)

\* a window that opens at the time of the request
WindowFromNow(clock, days) == clock

\* startDate.setDate(startDate.getDate() - days): the same time of day, days earlier
WindowStart(clock, days) == clock - days * UnitsPerDay

\* the first aggregation of getExpenseTrends: one entry per calendar day
DailyTrends(store, userId, startDate) ==
  LET matched == SelectSeq(store, LAMBDA e : Owns(e, userId) /\ e.date >= startDate)
      key(e) == <<YearOf(e.date), MonthOf(e.date), DayOfMonthOf(e.date)>>
      keys == Distinct([i \in 1..Len(matched) |-> key(matched[i])])
      group(k) == SelectSeq(matched, LAMBDA e : key(e) = k)
      project(k) ==
        LET g == group(k) IN
        [date |-> At(k[1], k[2], k[3], 0),
         totalAmount |-> MongoRound(SumSeq(Amounts(g)), 1),
         count |-> Len(g),
         categoriesCount |-> Cardinality({g[i].category : i \in 1..Len(g)})]
      projected == [i \in 1..Len(keys) |-> project(keys[i])]
  IN \* { $sort: { date: 1 } }: the dates are distinct
     SortSeq(projected, LAMBDA a, b : a.date < b.date)

\* the second aggregation of getExpenseTrends, and the third of
\* getExpenseSummary: totals per category, the largest TopLimit of them
TopCategories(matched) ==
  LET keys == Distinct([i \in 1..Len(matched) |-> matched[i].category])
      group(c) == SelectSeq(matched, LAMBDA e : e.category = c)
      project(c) ==
        LET g == group(c) IN
        [category |-> c,
         totalAmount |-> MongoRound(SumSeq(Amounts(g)), 1),
         count |-> Len(g)]
  IN Take(SortByTotalDesc([i \in 1..Len(keys) |-> project(keys[i])]), TopLimit)

\* an average over the length of the window
WindowDivisor(dailyTrends, days) == days

\* the divisor of dailyAverage
TrendDivisor(dailyTrends, days) == Len(dailyTrends)

TrendsData(dailyTrends, topCategories, days, startDate, endDate) ==
  LET periodTotal == SumSeq(TotalAmounts(dailyTrends))
      periodCount == SumSeq(Counts(dailyTrends))
  IN [kind |-> "trends",
      period |-> [days |-> days, startDate |-> startDate, endDate |-> endDate],
      summary |->
        [periodTotal |-> MathRound(periodTotal, 1),
         periodCount |-> periodCount,
         dailyAverage |-> IF Len(dailyTrends) > 0
                          THEN MathRound(periodTotal, TrendDivisor(dailyTrends, days))
                          ELSE 0,
         activeDays |-> Len(dailyTrends)],
      dailyTrends |-> dailyTrends,
      topCategories |-> topCategories]

\* what getExpenseTrends answers over a store at a clock reading
ExpenseTrends(store, clock, userId, query) ==
  LET days == ParseIntOr(query.days, DefaultDays)
      startDate == WindowStart(clock, days)
  IN Respond(200, "Expense trends retrieved successfully",
       TrendsData(
         DailyTrends(store, userId, startDate),
         TopCategories(SelectSeq(store, LAMBDA e :
           Owns(e, userId) /\ e.date >= startDate)),
         days, startDate, clock))

getExpenseTrends(userId, query) ==
  /\ req' = Request("expenseTrends", userId, query)
  /\ repeat' = Repeats("expenseTrends", userId, query)
  /\ walk' = <<>>
  /\ UNCHANGED inflight
  /\ elapsed' = FALSE
  /\ session' = NoSession
  /\ UNCHANGED <<users, pending>>
  /\ resp' = ExpenseTrends(expenses, now, userId, query)
  /\ dbCalls' = <<"aggregate", "aggregate">>
  /\ failed' = {}
  /\ UNCHANGED <<expenses, nextId, now>>

-----------------------------------------------------------------------------
(* Expense summary *)

\* the records of the collection, whoever owns them
OwnedByAnyone(store, userId) == store

OwnedBy(store, userId) == SelectSeq(store, LAMBDA e : Owns(e, userId))

RECURSIVE MinSeq(_)
MinSeq(s) ==
  IF Len(s) = 1 THEN s[1]
  ELSE LET m == MinSeq(Tail(s)) IN IF Head(s) < m THEN Head(s) ELSE m

RECURSIVE MaxSeq(_)
MaxSeq(s) ==
  IF Len(s) = 1 THEN s[1]
  ELSE LET m == MaxSeq(Tail(s)) IN IF Head(s) > m THEN Head(s) ELSE m

\* totalExpenses[0] || { zeros }: avgAmount is kept as the exact sum and count
TotalStats(store, userId) ==
  LET own == OwnedBy(store, userId) IN
  IF own = <<>>
  THEN [totalAmount |-> 0, count |-> 0, avgNum |-> 0, avgDen |-> 1,
        minAmount |-> 0, maxAmount |-> 0]
  ELSE [totalAmount |-> SumSeq(Amounts(own)), count |-> Len(own),
        avgNum |-> SumSeq(Amounts(own)), avgDen |-> Len(own),
        minAmount |-> MinSeq(Amounts(own)), maxAmount |-> MaxSeq(Amounts(own))]

\* new Date(y, m, 1) and new Date(y, m + 1, 0): midnight of the first and of
\* the last day of the clock's month
StartOfMonth(clock) == At(YearOf(clock), MonthOf(clock), 1, 0)
EndOfMonth(clock) ==
  At(YearOf(clock), MonthOf(clock), MonthLen(YearOf(clock), MonthOf(clock)), 0)

\* currentMonthExpenses[0] || { zeros }
CurrentMonthStats(store, userId, clock) ==
  LET matched == SelectSeq(store, LAMBDA e :
                   /\ Owns(e, userId)
                   /\ InRange(e, StartOfMonth(clock), EndOfMonth(clock)))
  IN [totalAmount |-> SumSeq(Amounts(matched)), count |-> Len(matched)]

\* .sort({ createdAt: -1 }): createdAt is set once, at insertion, so the
\* newest first is the insertion order reversed
SortNewest(s) == [i \in 1..Len(s) |-> s[Len(s) + 1 - i]]

\* the newest expense of the user alone
LatestExpense(store, userId) ==
  LET newest == Take(SortNewest(OwnedBy(store, userId)), 1) IN
  [i \in 1..Len(newest) |->
     [id |-> newest[i].id, title |-> newest[i].title, amount |-> newest[i].amount,
      date |-> newest[i].date, category |-> newest[i].category]]

\* Expense.find({ userId }).sort(...).limit(5).select("title amount date category")
RecentExpenses(store, userId) ==
  LET newest == Take(SortNewest(OwnedBy(store, userId)), TopLimit) IN
  [i \in 1..Len(newest) |->
     [id |-> newest[i].id, title |-> newest[i].title, amount |-> newest[i].amount,
      date |-> newest[i].date, category |-> newest[i].category]]

SummaryData(totalStats, currentMonthStats, categoryBreakdown, recentExpenses) ==
  [kind |-> "summary",
   overview |->
     [totalExpenses |-> MathRound(totalStats.totalAmount, 1),
      totalCount |-> totalStats.count,
      averageExpense |-> MathRound(totalStats.avgNum, totalStats.avgDen),
      minExpense |-> MathRound(totalStats.minAmount, 1),
      maxExpense |-> MathRound(totalStats.maxAmount, 1)],
   currentMonth |->
     [totalAmount |-> MathRound(currentMonthStats.totalAmount, 1),
      count |-> currentMonthStats.count],
   topCategories |-> categoryBreakdown,
   recentExpenses |-> recentExpenses]

\* what getExpenseSummary answers over a store at a clock reading
ExpenseSummary(store, clock, userId) ==
  Respond(200, "Expense summary retrieved successfully",
    SummaryData(
      TotalStats(store, userId),
      CurrentMonthStats(store, userId, clock),
      TopCategories(OwnedBy(store, userId)),
      RecentExpenses(store, userId)))

NoQuery == [none |-> Absent]

getExpenseSummary(userId) ==
  /\ req' = Request("expenseSummary", userId, NoQuery)
  /\ repeat' = Repeats("expenseSummary", userId, NoQuery)
  /\ walk' = <<>>
  /\ UNCHANGED inflight
  /\ elapsed' = FALSE
  /\ session' = NoSession
  /\ UNCHANGED <<users, pending>>
  /\ resp' = ExpenseSummary(expenses, now, userId)
  /\ dbCalls' = <<"aggregate", "aggregate", "aggregate", "find">>
  /\ failed' = {}
  /\ UNCHANGED <<expenses, nextId, now>>

-----------------------------------------------------------------------------
(* Expense CRUD *)

\* the keys of the two expense schemas; a body with another key is refused
ExpenseKeys == {"title", "amount", "date", "category", "notes"}

\* a schema without .max("now") on the date
ExpenseCreateAnyDate(body, clock) ==
  /\ body.title.kind = "value"
  /\ body.amount.kind = "value"
  /\ body.amount.val > 0
  /\ body.amount.val <= MaxAmount
  /\ body.date.kind = "value"
  /\ body.category.kind = "value"
  /\ body.category.val \in CategorySet
  /\ Field(body, "notes").kind \in {"absent", "value"}
  /\ DOMAIN body \subseteq ExpenseKeys

\* expenseCreateSchema.validate(req.body) reports no error
ExpenseCreateValid(body, clock) ==
  /\ body.title.kind = "value"
  /\ body.amount.kind = "value"
  /\ body.amount.val > 0
  /\ body.amount.val <= MaxAmount
  /\ body.date.kind = "value"
  /\ body.date.val <= clock
  /\ body.category.kind = "value"
  /\ body.category.val \in CategorySet
  /\ Field(body, "notes").kind \in {"absent", "value"}
  /\ DOMAIN body \subseteq ExpenseKeys

\* a schema that lets the keys it does not know through
ExpenseUpdateAnyKey(body, clock) ==
  /\ body.title.kind \in {"absent", "value"}
  /\ body.amount.kind \in {"absent", "value"}
  /\ body.amount.kind = "value" => body.amount.val > 0 /\ body.amount.val <= MaxAmount
  /\ body.date.kind \in {"absent", "value"}
  /\ body.date.kind = "value" => body.date.val <= clock
  /\ body.category.kind \in {"absent", "value"}
  /\ body.category.kind = "value" => body.category.val \in CategorySet
  /\ Field(body, "notes").kind \in {"absent", "value"}
  /\ \/ body.title.kind = "value"
     \/ body.amount.kind = "value"
     \/ body.date.kind = "value"
     \/ body.category.kind = "value"
     \/ Field(body, "notes").kind = "value"
     \/ DOMAIN body \ ExpenseKeys # {}

\* expenseUpdateSchema.validate(req.body) reports no error
ExpenseUpdateValid(body, clock) ==
  /\ body.title.kind \in {"absent", "value"}
  /\ body.amount.kind \in {"absent", "value"}
  /\ body.amount.kind = "value" => body.amount.val > 0 /\ body.amount.val <= MaxAmount
  /\ body.date.kind \in {"absent", "value"}
  /\ body.date.kind = "value" => body.date.val <= clock
  /\ body.category.kind \in {"absent", "value"}
  /\ body.category.kind = "value" => body.category.val \in CategorySet
  /\ Field(body, "notes").kind \in {"absent", "value"}
  /\ DOMAIN body \subseteq ExpenseKeys
  /\ \/ body.title.kind = "value"
     \/ body.amount.kind = "value"
     \/ body.date.kind = "value"
     \/ body.category.kind = "value"
     \/ Field(body, "notes").kind = "value"

ExpenseData(expense) == [kind |-> "expense", expense |-> expense]

createExpense(userId, body) ==
  /\ req' = Request("createExpense", userId, body)
  /\ repeat' = "no"
  /\ walk' = <<>>
  /\ UNCHANGED inflight
  /\ elapsed' = FALSE
  /\ session' = NoSession
  /\ UNCHANGED <<users, pending>>
  /\ IF ~ExpenseCreateValid(body, now)
     THEN /\ resp' = ValidationError
          /\ dbCalls' = <<>>
          /\ failed' = {}
          /\ UNCHANGED <<expenses, nextId>>
     ELSE LET expense == [id |-> nextId, userId |-> userId,
                          title |-> body.title.val,
                          amount |-> body.amount.val, date |-> body.date.val,
                          category |-> body.category.val,
                          notes |-> Field(body, "notes")]
          IN /\ expenses' = Append(expenses, expense)
             /\ nextId' = nextId + 1
             /\ resp' = Respond(201, "Expense created successfully", ExpenseData(expense))
             /\ dbCalls' = <<"save">>
             /\ failed' = {}
  /\ UNCHANGED now

\* the position in the store of the first expense of the user, whatever its _id
FindFirstOwned(store, id, userId) ==
  IF \E i \in 1..Len(store) : store[i].userId = userId
  THEN CHOOSE i \in 1..Len(store) :
         /\ store[i].userId = userId
         /\ \A j \in 1..(i - 1) : store[j].userId # userId
  ELSE 0

\* the position in the store of the expense with this _id, whoever owns it
FindById(store, id, userId) ==
  IF \E i \in 1..Len(store) : store[i].id = id
  THEN CHOOSE i \in 1..Len(store) : store[i].id = id
  ELSE 0

\* the position in the store of the expense with this _id and userId, or 0
FindOne(store, id, userId) ==
  IF \E i \in 1..Len(store) : store[i].id = id /\ store[i].userId = userId
  THEN CHOOSE i \in 1..Len(store) : store[i].id = id /\ store[i].userId = userId
  ELSE 0

\* the document with the fields of the update body set
ApplyUpdate(expense, body) ==
  [expense EXCEPT
     !.title = IF body.title.kind = "value" THEN body.title.val ELSE @,
     !.amount = IF body.amount.kind = "value" THEN body.amount.val ELSE @,
     !.date = IF body.date.kind = "value" THEN body.date.val ELSE @,
     !.category = IF body.category.kind = "value" THEN body.category.val ELSE @,
     !.notes = IF Field(body, "notes").kind = "value" THEN body.notes ELSE @,
     !.userId = IF Field(body, "userId").kind = "value" THEN body.userId.val ELSE @]

updateExpense(userId, id, body) ==
  /\ req' = Request("updateExpense", userId, [id |-> id, body |-> body])
  /\ repeat' = "no"
  /\ walk' = <<>>
  /\ UNCHANGED inflight
  /\ elapsed' = FALSE
  /\ session' = NoSession
  /\ UNCHANGED <<users, pending>>
  /\ IF id.kind # "value"
     THEN /\ resp' = Respond(400, "Invalid expense ID", NoData)
          /\ dbCalls' = <<>>
          /\ failed' = {}
          /\ UNCHANGED expenses
     ELSE IF ~ExpenseUpdateValid(body, now)
     THEN /\ resp' = ValidationError
          /\ dbCalls' = <<>>
          /\ failed' = {}
          /\ UNCHANGED expenses
     ELSE LET i == FindOne(expenses, id.val, userId) IN
          /\ dbCalls' = <<"findOneAndUpdate">>
          /\ failed' = {}
          /\ IF i = 0
             THEN /\ resp' = Respond(404, "Expense not found", NoData)
                  /\ UNCHANGED expenses
             ELSE /\ expenses' = [expenses EXCEPT ![i] = ApplyUpdate(@, body)]
                  /\ resp' = Respond(200, "Expense updated successfully",
                               ExpenseData(ApplyUpdate(expenses[i], body)))
  /\ UNCHANGED <<nextId, now>>

deleteExpense(userId, id) ==
  /\ req' = Request("deleteExpense", userId, [id |-> id])
  /\ repeat' = "no"
  /\ walk' = <<>>
  /\ UNCHANGED inflight
  /\ elapsed' = FALSE
  /\ session' = NoSession
  /\ UNCHANGED <<users, pending>>
  /\ IF id.kind # "value"
     THEN /\ resp' = Respond(400, "Invalid expense ID", NoData)
          /\ dbCalls' = <<>>
          /\ failed' = {}
          /\ UNCHANGED expenses
     ELSE LET i == FindOne(expenses, id.val, userId) IN
          /\ dbCalls' = <<"findOneAndDelete">>
          /\ failed' = {}
          /\ IF i = 0
             THEN /\ resp' = Respond(404, "Expense not found", NoData)
                  /\ UNCHANGED expenses
             ELSE /\ expenses' = SubSeq(expenses, 1, i - 1)
                                   \o SubSeq(expenses, i + 1, Len(expenses))
                  /\ resp' = Respond(200, "Expense deleted successfully",
                               ExpenseData(expenses[i]))
  /\ UNCHANGED <<nextId, now>>

\* a lookup that takes the expense it finds out of the collection
getExpenseByIdRemoving(userId, id) ==
  /\ req' = Request("getExpenseById", userId, [id |-> id])
  /\ repeat' = "no"
  /\ walk' = <<>>
  /\ UNCHANGED inflight
  /\ elapsed' = FALSE
  /\ session' = NoSession
  /\ UNCHANGED <<users, pending>>
  /\ IF id.kind # "value"
     THEN /\ resp' = Respond(400, "Invalid expense ID", NoData)
          /\ dbCalls' = <<>>
          /\ failed' = {}
          /\ UNCHANGED expenses
     ELSE LET i == FindOne(expenses, id.val, userId) IN
          /\ dbCalls' = <<"findOneAndDelete">>
          /\ failed' = {}
          /\ resp' = IF i = 0
                     THEN Respond(404, "Expense not found", NoData)
                     ELSE Respond(200, "Expense retrieved successfully",
                                  ExpenseData(expenses[i]))
          /\ expenses' = IF i = 0 THEN expenses
                         ELSE SubSeq(expenses, 1, i - 1) \o SubSeq(expenses, i + 1, Len(expenses))
  /\ UNCHANGED <<nextId, now>>

\* getExpenseById: the caller's expense with this id
getExpenseById(userId, id) ==
  /\ req' = Request("getExpenseById", userId, [id |-> id])
  /\ repeat' = "no"
  /\ walk' = <<>>
  /\ UNCHANGED inflight
  /\ elapsed' = FALSE
  /\ session' = NoSession
  /\ UNCHANGED <<users, pending>>
  /\ IF id.kind # "value"
     THEN /\ resp' = Respond(400, "Invalid expense ID", NoData)
          /\ dbCalls' = <<>>
          /\ failed' = {}
     ELSE LET i == FindOne(expenses, id.val, userId) IN
          /\ dbCalls' = <<"findOne">>
          /\ failed' = {}
          /\ resp' = IF i = 0
                     THEN Respond(404, "Expense not found", NoData)
                     ELSE Respond(200, "Expense retrieved successfully",
                                  ExpenseData(expenses[i]))
  /\ UNCHANGED <<expenses, nextId, now>>

-----------------------------------------------------------------------------
(* Expense statistics *)

\* { $group: { _id: null, totalAmount, totalCount, avgAmount } } over the
\* matched expenses, or the zeros: avgAmount is kept as the exact sum and count
StatsOf(matched) ==
  IF matched = <<>>
  THEN [totalAmount |-> 0, totalCount |-> 0, avgNum |-> 0, avgDen |-> 1]
  ELSE [totalAmount |-> SumSeq(Amounts(matched)), totalCount |-> Len(matched),
        avgNum |-> SumSeq(Amounts(matched)), avgDen |-> Len(matched)]

\* what getExpenseStats answers over a store at a clock reading
ExpenseStats(store, clock, userId) ==
  Respond(200, "Expense statistics retrieved successfully",
    [kind |-> "stats",
     currentMonth |->
       StatsOf(SelectSeq(store, LAMBDA e :
         Owns(e, userId) /\ InRange(e, StartOfMonth(clock), EndOfMonth(clock)))),
     allTime |-> StatsOf(OwnedBy(store, userId))])

getExpenseStats(userId) ==
  /\ req' = Request("getExpenseStats", userId, NoQuery)
  /\ repeat' = "no"
  /\ walk' = <<>>
  /\ UNCHANGED inflight
  /\ elapsed' = FALSE
  /\ session' = NoSession
  /\ UNCHANGED <<users, pending>>
  /\ resp' = ExpenseStats(expenses, now, userId)
  /\ dbCalls' = <<"aggregate", "aggregate">>
  /\ failed' = {}
  /\ UNCHANGED <<expenses, nextId, now>>

-----------------------------------------------------------------------------
(* The list of expenses *)

DefaultPage == 1
DefaultLimit == 10
MaxLimit == 100

\* expenseQuerySchema.validate(req.query) reports no error
ExpenseQueryValid(query) ==
  /\ query.page.kind \in {"absent", "value"}
  /\ query.page.kind = "value" => query.page.val >= 1
  /\ query.limit.kind \in {"absent", "value"}
  /\ query.limit.kind = "value" => query.limit.val >= 1 /\ query.limit.val <= MaxLimit
  /\ query.category.kind \in {"absent", "value"}
  /\ query.category.kind = "value" => query.category.val \in CategorySet
  /\ query.startDate.kind \in {"absent", "value"}
  /\ query.endDate.kind \in {"absent", "value"}
  /\ (query.startDate.kind = "value" /\ query.endDate.kind = "value") =>
       query.endDate.val >= query.startDate.val

\* the value of a parameter, or its default
ValueOr(p, default) == IF p.kind = "value" THEN p.val ELSE default

\* the filter built from the query: the caller's expenses, of the category
\* and within the dates when these are given
Matches(e, userId, query) ==
  /\ Owns(e, userId)
  /\ query.category.kind = "value" => e.category = query.category.val
  /\ query.startDate.kind = "value" => e.date >= query.startDate.val
  /\ query.endDate.kind = "value" => e.date <= query.endDate.val

\* x put into s, sorted by date descending, after the entries of its date
InsertByDate(s, x) ==
  LET k == Cardinality({i \in 1..Len(s) : s[i].date >= x.date})
  IN SubSeq(s, 1, k) \o <<x>> \o SubSeq(s, k + 1, Len(s))

RECURSIVE SortByDateDesc(_)
SortByDateDesc(s) ==
  IF s = <<>> THEN <<>>
  ELSE InsertByDate(SortByDateDesc(SubSeq(s, 1, Len(s) - 1)), s[Len(s)])

\* .sort({ date: -1, createdAt: -1 }): the newest date first, and among the
\* expenses of one date the one created last first
SortForList(s) == SortByDateDesc(SortNewest(s))

\* a page that starts at its own number, not after the pages before it
SkipOnePerPage(page, limit) == page - 1

\* skip = (page - 1) * limit
Skip(page, limit) == (page - 1) * limit

\* .skip(skip).limit(limit)
Page(s, page, limit) ==
  LET skip == Skip(page, limit)
      last == IF skip + limit < Len(s) THEN skip + limit ELSE Len(s)
  IN SubSeq(s, skip + 1, last)

\* Math.ceil(totalCount / limit)
TotalPages(totalCount, limit) == (totalCount + limit - 1) \div limit

\* what getExpenses answers over a store
ExpenseList(store, userId, query) ==
  IF ~ExpenseQueryValid(query) THEN ValidationError
  ELSE LET page == ValueOr(query.page, DefaultPage)
           limit == ValueOr(query.limit, DefaultLimit)
           matching == SelectSeq(store, LAMBDA e : Matches(e, userId, query))
           totalCount == Len(matching)
           totalPages == TotalPages(totalCount, limit)
       IN Respond(200, "Expenses retrieved successfully",
            [kind |-> "expenses",
             expenses |-> Page(SortForList(matching), page, limit),
             pagination |->
               [currentPage |-> page,
                totalPages |-> totalPages,
                totalCount |-> totalCount,
                limit |-> limit,
                hasNextPage |-> page < totalPages,
                hasPrevPage |-> page > 1]])

\* the ids of the expenses of a page
IdsOf(page) == [i \in 1..Len(page) |-> page[i].id]

\* the pages read so far when this request is answered: the first page
\* starts anew, the page after the last one read of the same list goes on
Walked(userId, query, answer) ==
  IF answer.status # 200 THEN <<>>
  ELSE IF ValueOr(query.page, DefaultPage) = 1 THEN <<IdsOf(answer.data.expenses)>>
  ELSE IF /\ walk # <<>>
          /\ req.op = "getExpenses"
          /\ req.userId = userId
          /\ [req.query EXCEPT !.page = query.page] = query
          /\ query.page.val = Len(walk) + 1
  THEN Append(walk, IdsOf(answer.data.expenses))
  ELSE <<>>

getExpenses(userId, query) ==
  /\ req' = Request("getExpenses", userId, query)
  /\ repeat' = "no"
  /\ walk' = Walked(userId, query, ExpenseList(expenses, userId, query))
  /\ UNCHANGED inflight
  /\ elapsed' = FALSE
  /\ session' = NoSession
  /\ UNCHANGED <<users, pending>>
  /\ resp' = ExpenseList(expenses, userId, query)
  /\ dbCalls' = IF ExpenseQueryValid(query) THEN <<"find", "countDocuments">> ELSE <<>>
  /\ failed' = {}
  /\ UNCHANGED <<expenses, nextId, now>>

-----------------------------------------------------------------------------
(* The clock *)

\* the clock when the service starts: 2024-12-31, one reading after midnight
StartClock == At(2024, 12, 31, 1)

Tick ==
  /\ now < StartClock + MaxTicks
  /\ now' = now + 1
  /\ elapsed' = TRUE
  /\ UNCHANGED <<expenses, nextId, req, resp, dbCalls, failed, repeat>>
  /\ UNCHANGED <<users, pending, session, walk, inflight>>

-----------------------------------------------------------------------------
(* The service: two users and every handler, at one clock reading *)

Init ==
  /\ users = <<>>
  /\ walk = <<>>
  /\ inflight = NoReport
  /\ pending = <<>>
  /\ session = NoSession
  /\ expenses = <<>>
  /\ nextId = 1
  /\ now = StartClock
  /\ req = Request("none", "", NoQuery)
  /\ resp = [status |-> 0, success |-> FALSE, message |-> "", data |-> NoData]
  /\ dbCalls = <<>>
  /\ failed = {}
  /\ elapsed = FALSE
  /\ repeat = "no"

CreateBodies ==
  {[amount |-> Value(1), date |-> Value(At(2024, 12, 30, 1)), title |-> Value("Lunch"),
    category |-> Value("Food")],
   [amount |-> Value(2), date |-> Value(At(2024, 12, 31, 1)), title |-> Value("Lunch"),
    category |-> Value("Food")],
   [amount |-> Value(2), date |-> Value(At(2024, 12, 30, 1)), title |-> Value("Lunch"),
    category |-> Value("Shopping")],
   [amount |-> Value(0), date |-> Value(At(2024, 12, 30, 1)), title |-> Value("Lunch"),
    category |-> Value("Food")]}

UpdateBodies ==
  {[amount |-> Value(3), date |-> Absent, title |-> Value("Lunch"),
    category |-> Value("Shopping")],
   [amount |-> Absent, date |-> Absent, title |-> Absent,
    category |-> Absent]}

ExpenseIds == {Invalid} \cup {Value(i) : i \in 1..MaxExpenses}

CategoryQueries ==
  {[startDate |-> Value(At(2024, 12, 30, 0)), endDate |-> Value(At(2025, 1, 1, 0))],
   [startDate |-> Value(At(2024, 12, 30, 0)), endDate |-> Absent]}

MonthlyQueries == {[year |-> y] : y \in {Absent, Value(2024)}}
TrendQueries == {[days |-> d] : d \in {Absent, Value(1)}}

Next ==
  \/ \E u \in UserIds, b \in CreateBodies :
       nextId <= MaxExpenses /\ createExpense(u, b)
  \/ \E u \in UserIds, i \in ExpenseIds, b \in UpdateBodies : updateExpense(u, i, b)
  \/ \E u \in UserIds, i \in ExpenseIds : deleteExpense(u, i)
  \/ \E u \in UserIds, q \in CategoryQueries : getCategoryReport(u, q)
  \/ \E u \in UserIds, q \in MonthlyQueries : getMonthlyReport(u, q)
  \/ \E u \in UserIds, q \in TrendQueries : getExpenseTrends(u, q)
  \/ \E u \in UserIds : getExpenseSummary(u)

Spec == Init /\ [][Next]_vars

-----------------------------------------------------------------------------
(* One user and the category report: a few expenses in and out of a range *)

CatBodies ==
  [amount : {Value(1), Value(2), Value(3)},
   date : {Value(At(2024, 12, 30, 1)), Value(At(2024, 12, 31, 1))},
   title : {Value("Lunch")}, category : {Value("Food"), Value("Shopping")}]

CatQueries ==
  {[startDate |-> Value(At(2024, 12, 30, 0)), endDate |-> Value(At(2024, 12, 30, 1))],
   [startDate |-> Value(At(2024, 12, 30, 0)), endDate |-> Value(At(2025, 1, 1, 0))],
   [startDate |-> Value(At(2025, 1, 1, 0)), endDate |-> Value(At(2024, 12, 30, 0))],
   [startDate |-> Value(At(2024, 12, 30, 0)), endDate |-> Absent],
   [startDate |-> Absent, endDate |-> Value(At(2025, 1, 1, 0))],
   [startDate |-> Absent, endDate |-> Absent],
   [startDate |-> Value(At(2024, 12, 30, 0)), endDate |-> Invalid]}

NextCat ==
  \/ \E b \in CatBodies : nextId <= MaxRecords /\ createExpense("A", b)
  \/ \E q \in CatQueries : getCategoryReport("A", q)

SpecCat == Init /\ [][NextCat]_vars

-----------------------------------------------------------------------------
(* One user and the category report: one expense in each category in turn *)

PctBodies ==
  IF nextId <= Len(Categories)
  THEN [amount : {Value(1), Value(2)},
        date : {Value(At(2024, 12, 30, 1))},
        title : {Value("Lunch")}, category : {Value(Categories[nextId])}]
  ELSE {}

NextPct ==
  \/ \E b \in PctBodies : createExpense("A", b)
  \/ \E q \in CatQueries : getCategoryReport("A", q)

SpecPct == Init /\ [][NextPct]_vars

-----------------------------------------------------------------------------
(* One user and the monthly report: expenses in several months and years *)

MonthlyBodies ==
  [amount : {Value(1), Value(5)},
   date : {Value(At(2023, 6, 1, 0)), Value(At(2024, 3, 15, 1)),
           Value(At(2024, 12, 31, 0)), Value(At(2024, 12, 31, 1))},
   title : {Value("Lunch")}, category : {Value("Food")}]

YearQueries ==
  {[year |-> y] : y \in {Absent, Invalid, Value(2024), Value(2023), Value(1999)}}

NextMonthly ==
  \/ \E b \in MonthlyBodies : nextId <= MaxRecords /\ createExpense("A", b)
  \/ \E q \in YearQueries : getMonthlyReport("A", q)

SpecMonthly == Init /\ [][NextMonthly]_vars

-----------------------------------------------------------------------------
(* One user and the trends report while the clock runs *)

TrendBodies ==
  [amount : {Value(1), Value(2)},
   date : {Value(At(2024, 11, 30, 1)), Value(At(2024, 12, 30, 1)),
           Value(At(2024, 12, 31, 0)), Value(At(2024, 12, 31, 1))},
   title : {Value("Lunch")}, category : {Value("Food")}]

DaysQueries ==
  {[days |-> d] : d \in {Absent, Invalid, Value(1), Value(2)}}

NextTrend ==
  \/ \E b \in TrendBodies : nextId <= MaxRecords /\ createExpense("A", b)
  \/ \E q \in DaysQueries : getExpenseTrends("A", q)
  \/ Tick

SpecTrend == Init /\ [][NextTrend]_vars

-----------------------------------------------------------------------------
(* One user asking for the four reports again and again while the clock runs *)

RepeatBodies ==
  {[amount |-> Value(1), date |-> Value(At(2024, 12, 30, 1)), title |-> Value("Lunch"),
    category |-> Value("Food")],
   [amount |-> Value(2), date |-> Value(At(2024, 12, 31, 1)), title |-> Value("Lunch"),
    category |-> Value("Shopping")]}

NextRepeat ==
  \/ \E b \in RepeatBodies : nextId <= MaxExpenses /\ createExpense("A", b)
  \/ \E q \in CategoryQueries : getCategoryReport("A", q)
  \/ \E q \in MonthlyQueries : getMonthlyReport("A", q)
  \/ \E q \in TrendQueries : getExpenseTrends("A", q)
  \/ getExpenseSummary("A")
  \/ Tick

SpecRepeat == Init /\ [][NextRepeat]_vars

-----------------------------------------------------------------------------
(* Errors passed to next(error) *)

\* an error object: its name, its code and statusCode (0 when it has none),
\* the first key of its keyValue, and its message
Error(name, code, statusCode, field, message) ==
  [name |-> name, code |-> code, statusCode |-> statusCode,
   field |-> field, message |-> message]

\* an error answered as an empty success
SwallowError(err) == Respond(200, "", NoData)

\* errorHandler: each test overrides what the tests before it chose
ErrorHandler(err) ==
  LET e0 == [statusCode |-> err.statusCode, message |-> err.message]
      e1 == IF err.name = "CastError"
            THEN [statusCode |-> 404, message |-> "Resource not found"] ELSE e0
      e2 == IF err.code = 11000
            THEN [statusCode |-> 400, message |-> err.field \o " already exists"]
            ELSE e1
      e3 == IF err.name = "ValidationError"
            THEN [statusCode |-> 400, message |-> err.message] ELSE e2
      e4 == IF err.name = "JsonWebTokenError"
            THEN [statusCode |-> 401, message |-> "Invalid token"] ELSE e3
      e5 == IF err.name = "TokenExpiredError"
            THEN [statusCode |-> 401, message |-> "Token expired"] ELSE e4
  IN [status |-> IF e5.statusCode # 0 THEN e5.statusCode ELSE 500,
      success |-> FALSE,
      message |-> IF e5.message # "" THEN e5.message ELSE "Server Error",
      data |-> NoData]

\* what the driver throws when the store rejects a query
StorageErrors ==
  {Error("MongoNetworkError", 0, 0, "", "connection closed"),
   Error("MongoServerError", 50, 0, "", "operation exceeded time limit"),
   Error("MongoServerError", 0, 0, "", "")}

\* a handler whose k-th store operation, of those in calls, is rejected
Rejected(op, userId, query, calls, rejected, err) ==
  /\ req' = Request(op, userId, query)
  /\ repeat' = "no"
  /\ walk' = <<>>
  /\ UNCHANGED inflight
  /\ elapsed' = FALSE
  /\ session' = NoSession
  /\ UNCHANGED <<users, pending>>
  /\ resp' = ErrorHandler(err)
  /\ dbCalls' = calls
  /\ failed' = rejected
  /\ UNCHANGED <<expenses, nextId, now>>

\* getCategoryReport when its aggregation is rejected
getCategoryReportRejected(userId, query, err) ==
  /\ ReportQueryValid(query)
  /\ Rejected("categoryReport", userId, query, <<"aggregate">>, {1}, err)

\* getMonthlyReport when its aggregation is rejected
getMonthlyReportRejected(userId, query, err) ==
  Rejected("monthlyReport", userId, query, <<"aggregate">>, {1}, err)

\* getExpenseTrends when its first or its second aggregation is rejected:
\* the second is awaited after the first, and is not sent when the first fails
getExpenseTrendsRejected(userId, query, k, err) ==
  Rejected("expenseTrends", userId, query,
           SubSeq(<<"aggregate", "aggregate">>, 1, k), {k}, err)

\* getExpenseSummary when some of the four queries of its Promise.all are
\* rejected: the four are sent together
getExpenseSummaryRejected(userId, rejected, err) ==
  /\ rejected # {}
  /\ Rejected("expenseSummary", userId, NoQuery,
              <<"aggregate", "aggregate", "aggregate", "find">>, rejected, err)

-----------------------------------------------------------------------------
(* One user and the four reports over a store that may reject a query *)

NextFail ==
  \/ \E b \in RepeatBodies : nextId <= MaxExpenses /\ createExpense("A", b)
  \/ \E q \in CategoryQueries : getCategoryReport("A", q)
  \/ \E q \in MonthlyQueries : getMonthlyReport("A", q)
  \/ \E q \in TrendQueries : getExpenseTrends("A", q)
  \/ getExpenseSummary("A")
  \/ \E q \in CategoryQueries, err \in StorageErrors :
       getCategoryReportRejected("A", q, err)
  \/ \E q \in MonthlyQueries, err \in StorageErrors :
       getMonthlyReportRejected("A", q, err)
  \/ \E q \in TrendQueries, k \in 1..2, err \in StorageErrors :
       getExpenseTrendsRejected("A", q, k, err)
  \/ \E rejected \in SUBSET (1..4), err \in StorageErrors :
       getExpenseSummaryRejected("A", rejected, err)

SpecFail == Init /\ [][NextFail]_vars

-----------------------------------------------------------------------------
(* One user and the four reports over amounts whose average is a half cent *)

RoundBodies ==
  [amount : {Value(12), Value(13)},
   date : {Value(At(2024, 12, 30, 1))},
   title : {Value("Lunch")}, category : {Value("Food"), Value("Shopping")}]

NextRound ==
  \/ \E b \in RoundBodies : nextId <= MaxRecords /\ createExpense("A", b)
  \/ \E q \in CategoryQueries : getCategoryReport("A", q)
  \/ \E q \in MonthlyQueries : getMonthlyReport("A", q)
  \/ \E q \in TrendQueries : getExpenseTrends("A", q)
  \/ getExpenseSummary("A")

SpecRound == Init /\ [][NextRound]_vars

-----------------------------------------------------------------------------
(* Two users reading, listing, changing and deleting expenses *)

ListQueries ==
  {[page |-> p, limit |-> l, category |-> c, startDate |-> Absent, endDate |-> Absent] :
     p \in {Absent, Value(2)}, l \in {Absent, Value(1)}, c \in {Absent, Value("Food")}}

NextCrud ==
  \/ \E u \in UserIds, b \in CreateBodies :
       nextId <= MaxExpenses /\ createExpense(u, b)
  \/ \E u \in UserIds, i \in ExpenseIds : getExpenseById(u, i)
  \/ \E u \in UserIds, i \in ExpenseIds, b \in UpdateBodies : updateExpense(u, i, b)
  \/ \E u \in UserIds, i \in ExpenseIds : deleteExpense(u, i)
  \/ \E u \in UserIds, q \in ListQueries : getExpenses(u, q)

SpecCrud == Init /\ [][NextCrud]_vars

-----------------------------------------------------------------------------
(* Users and tokens *)

MaxUsers == 2          \* registrations started in a behaviour
TokenLifeDays == 7     \* JWT_EXPIRES_IN

\* the _id the store gives to the n-th user it inserts
UserIdOf(n) == <<"A", "B", "C">>[n]

\* the password as the user document keeps it
Hash(password) == <<"bcrypt", password>>

\* user.comparePassword(candidate)
ComparePassword(user, candidate) == user.password = Hash(candidate)

\* jwt.sign({ userId, email }, JWT_SECRET, { expiresIn })
GenerateToken(userId, email, clock) ==
  [present |-> TRUE, signed |-> TRUE, userId |-> userId, email |-> email,
   exp |-> clock + TokenLifeDays * UnitsPerDay]

\* jwt.verify(token, JWT_SECRET) returns the payload
VerifyToken(token, clock) == token.signed /\ clock < token.exp

\* the first user of the collection, whatever the email
FindFirstUser(store, email) == IF store = <<>> THEN 0 ELSE 1

\* the position in the collection of the user with this email, or 0
FindByEmail(store, email) ==
  IF \E i \in 1..Len(store) : store[i].email = email
  THEN CHOOSE i \in 1..Len(store) : store[i].email = email
  ELSE 0

\* the position in the collection of the user with this _id, or 0
FindUserById(store, id) ==
  IF \E i \in 1..Len(store) : store[i].id = id
  THEN CHOOSE i \in 1..Len(store) : store[i].id = id
  ELSE 0

\* the user as the auth responses show it
AuthData(token, user) ==
  [kind |-> "auth", token |-> token,
   user |-> [id |-> user.id, name |-> user.name, email |-> user.email]]

\* userRegisterSchema.validate(req.body) reports no error
UserRegisterValid(body) ==
  body.name.kind = "value" /\ body.email.kind = "value" /\ body.password.kind = "value"

\* userLoginSchema.validate(req.body) reports no error
UserLoginValid(body) == body.email.kind = "value" /\ body.password.kind = "value"

\* a registration that never finds the email taken
NeverTaken(store, email) == FALSE

\* the existingUser test of register
EmailTaken(store, email) == FindByEmail(store, email) # 0

\* the unique index of the user collection on email lets the insert through
UniqueEmail(store, email) == FindByEmail(store, email) = 0

\* register up to its await of User.findOne: the body is validated and the
\* email looked up; the request then waits for its save
registerFind(body) ==
  /\ Len(users) + Len(pending) < MaxUsers
  /\ req' = Request("register", "", body)
  /\ repeat' = "no"
  /\ walk' = <<>>
  /\ UNCHANGED inflight
  /\ elapsed' = FALSE
  /\ failed' = {}
  /\ IF ~UserRegisterValid(body)
     THEN /\ resp' = ValidationError
          /\ dbCalls' = <<>>
          /\ UNCHANGED pending
     ELSE IF EmailTaken(users, body.email.val)
     THEN /\ resp' = Respond(400, "User with this email already exists", NoData)
          /\ dbCalls' = <<"findOne">>
          /\ UNCHANGED pending
     ELSE /\ pending' = Append(pending, body)
          /\ dbCalls' = <<"findOne">>
          /\ UNCHANGED resp
  /\ UNCHANGED <<users, session, expenses, nextId, now>>

\* register from its user.save() on, for the i-th waiting registration
registerSave(i) ==
  /\ i \in 1..Len(pending)
  /\ LET body == pending[i]
         user == [id |-> UserIdOf(Len(users) + 1), name |-> body.name.val,
                  email |-> body.email.val, password |-> Hash(body.password.val)]
     IN /\ req' = Request("register", "", body)
        /\ IF UniqueEmail(users, body.email.val)
           THEN /\ users' = Append(users, user)
                /\ resp' = Respond(201, "User registered successfully",
                             AuthData(GenerateToken(user.id, user.email, now), user))
                /\ failed' = {}
           ELSE /\ UNCHANGED users
                /\ resp' = ErrorHandler(Error("MongoServerError", 11000, 0, "email",
                             "E11000 duplicate key error"))
                /\ failed' = {1}
  /\ pending' = SubSeq(pending, 1, i - 1) \o SubSeq(pending, i + 1, Len(pending))
  /\ dbCalls' = <<"save">>
  /\ repeat' = "no"
  /\ walk' = <<>>
  /\ UNCHANGED inflight
  /\ elapsed' = FALSE
  /\ UNCHANGED <<session, expenses, nextId, now>>

login(body) ==
  /\ req' = Request("login", "", body)
  /\ repeat' = "no"
  /\ walk' = <<>>
  /\ UNCHANGED inflight
  /\ elapsed' = FALSE
  /\ failed' = {}
  /\ IF ~UserLoginValid(body)
     THEN /\ resp' = ValidationError
          /\ dbCalls' = <<>>
     ELSE LET i == FindByEmail(users, body.email.val) IN
          /\ dbCalls' = <<"findOne">>
          /\ resp' = IF i = 0
                     THEN Respond(401, "Invalid email or password", NoData)
                     ELSE IF ~ComparePassword(users[i], body.password.val)
                     THEN Respond(401, "Invalid email or password", NoData)
                     ELSE Respond(200, "Login successful",
                            AuthData(GenerateToken(users[i].id, users[i].email, now),
                                     users[i]))
  /\ UNCHANGED <<users, pending, session, expenses, nextId, now>>

Emails == {"a@x.io", "b@x.io"}
Passwords == {"Secret1", "Secret2"}

RegisterBodies ==
  [name : {Value("Al")}, email : {Value(e) : e \in Emails} \cup {Invalid},
   password : {Value(p) : p \in Passwords}]

LoginBodies ==
  [email : {Value(e) : e \in Emails} \cup {Absent},
   password : {Value(p) : p \in Passwords}]

-----------------------------------------------------------------------------
(* The guard of the expense, report and profile routes *)

\* a guard that does not look the user up
AuthenticateUnchecked(header, store, clock) ==
  IF header.kind # "bearer"
  THEN [userId |-> "", calls |-> <<>>,
        message |-> "Access denied. No token provided or invalid format."]
  ELSE IF ~header.token.present
  THEN [userId |-> "", calls |-> <<>>, message |-> "Access denied. No token provided."]
  ELSE IF ~VerifyToken(header.token, clock)
  THEN [userId |-> "", calls |-> <<>>, message |-> "Invalid token."]
  ELSE [userId |-> header.token.userId, calls |-> <<"findById">>, message |-> ""]

\* authenticate: the userId it sets on the request, or "" and the message
\* of its 401
Authenticate(header, store, clock) ==
  IF header.kind # "bearer"
  THEN [userId |-> "", calls |-> <<>>,
        message |-> "Access denied. No token provided or invalid format."]
  ELSE IF ~header.token.present
  THEN [userId |-> "", calls |-> <<>>, message |-> "Access denied. No token provided."]
  ELSE IF ~VerifyToken(header.token, clock)
  THEN [userId |-> "", calls |-> <<>>, message |-> "Invalid token."]
  ELSE IF FindUserById(store, header.token.userId) = 0
  THEN [userId |-> "", calls |-> <<"findById">>,
        message |-> "Token is valid but user no longer exists."]
  ELSE [userId |-> header.token.userId, calls |-> <<"findById">>, message |-> ""]

\* router.use(authenticate): the request for a route either is answered 401
\* or goes on to the handler of the route with req.userId set
authenticate(route, header) ==
  LET a == Authenticate(header, users, now) IN
  /\ session' = [route |-> route, header |-> header, userId |-> a.userId]
  /\ IF a.userId = ""
     THEN /\ req' = Request("authenticate", "", [route |-> route, header |-> header])
          /\ resp' = Respond(401, a.message, NoData)
          /\ dbCalls' = a.calls
          /\ failed' = {}
          /\ repeat' = "no"
          /\ walk' = <<>>
          /\ UNCHANGED inflight
          /\ elapsed' = FALSE
     ELSE UNCHANGED <<req, resp, dbCalls, failed, repeat, elapsed, walk, inflight>>
  /\ UNCHANGED <<users, pending, expenses, nextId, now>>

\* the user as the profile responses show it
ProfileData(user) ==
  [kind |-> "profile", user |-> [id |-> user.id, name |-> user.name, email |-> user.email]]

getProfile(userId) ==
  /\ req' = Request("getProfile", userId, NoQuery)
  /\ resp' = Respond(200, "Profile retrieved successfully",
               ProfileData(users[FindUserById(users, userId)]))
  /\ dbCalls' = <<>>
  /\ failed' = {}
  /\ repeat' = "no"
  /\ walk' = <<>>
  /\ UNCHANGED inflight
  /\ elapsed' = FALSE
  /\ session' = NoSession
  /\ UNCHANGED <<users, pending, expenses, nextId, now>>

updateProfile(userId, body) ==
  /\ req' = Request("updateProfile", userId, body)
  /\ failed' = {}
  /\ repeat' = "no"
  /\ walk' = <<>>
  /\ UNCHANGED inflight
  /\ elapsed' = FALSE
  /\ session' = NoSession
  /\ IF body.name.kind # "value"
     THEN /\ resp' = Respond(400, "Name must be at least 2 characters long", NoData)
          /\ dbCalls' = <<>>
          /\ UNCHANGED users
     ELSE LET i == FindUserById(users, userId) IN
          /\ dbCalls' = <<"findByIdAndUpdate">>
          /\ IF i = 0
             THEN /\ resp' = Respond(404, "User not found", NoData)
                  /\ UNCHANGED users
             ELSE /\ users' = [users EXCEPT ![i].name = body.name.val]
                  /\ resp' = Respond(200, "Profile updated successfully",
                               ProfileData([users[i] EXCEPT !.name = body.name.val]))
  /\ UNCHANGED <<pending, expenses, nextId, now>>

-----------------------------------------------------------------------------
(* Requests with every kind of Authorization header at the guarded routes *)

\* the tokens a request may carry: none, forged, expired, and signed ones
\* for a user id the collection may or may not hold
Tokens ==
  {NoToken}
  \cup [present : {TRUE}, signed : BOOLEAN, userId : {"A", "B"}, email : {"a@x.io"},
        exp : {StartClock, StartClock + TokenLifeDays * UnitsPerDay}]

Headers ==
  {NoHeader, [kind |-> "other", token |-> NoToken]}
  \cup {[kind |-> "bearer", token |-> t] : t \in Tokens}

GuardedRoutes ==
  {"createExpense", "getExpenses", "getExpenseById", "updateExpense", "deleteExpense",
   "categoryReport", "monthlyReport", "expenseTrends", "expenseSummary",
   "getProfile", "updateProfile"}

AuthRegisterBody ==
  [name |-> Value("Al"), email |-> Value("a@x.io"), password |-> Value("Secret1")]
AuthCreateBody ==
  [amount |-> Value(1), date |-> Value(At(2024, 12, 30, 1)), title |-> Value("Lunch"),
    category |-> Value("Food")]
AuthUpdateBody == [amount |-> Value(3), date |-> Absent, title |-> Absent,
    category |-> Absent]
AuthListQuery ==
  [page |-> Absent, limit |-> Absent, category |-> Absent,
   startDate |-> Absent, endDate |-> Absent]
AuthCategoryQuery ==
  [startDate |-> Value(At(2024, 12, 30, 0)), endDate |-> Value(At(2025, 1, 1, 0))]
ProfileBodies == {[name |-> Value("Bo")], [name |-> Invalid]}

\* the handler of the route the authenticated request was sent to
Handle(route, userId) ==
  \/ route = "createExpense" /\ nextId <= MaxExpenses /\ createExpense(userId, AuthCreateBody)
  \/ route = "getExpenses" /\ getExpenses(userId, AuthListQuery)
  \/ route = "getExpenseById" /\ getExpenseById(userId, Value(1))
  \/ route = "updateExpense" /\ updateExpense(userId, Value(1), AuthUpdateBody)
  \/ route = "deleteExpense" /\ deleteExpense(userId, Value(1))
  \/ route = "categoryReport" /\ getCategoryReport(userId, AuthCategoryQuery)
  \/ route = "monthlyReport" /\ getMonthlyReport(userId, [year |-> Absent])
  \/ route = "expenseTrends" /\ getExpenseTrends(userId, [days |-> Absent])
  \/ route = "expenseSummary" /\ getExpenseSummary(userId)
  \/ route = "getProfile" /\ getProfile(userId)
  \/ \E b \in ProfileBodies : route = "updateProfile" /\ updateProfile(userId, b)

NextAuth ==
  \/ registerFind(AuthRegisterBody)
  \/ registerSave(1)
  \/ \E r \in GuardedRoutes, h \in Headers : authenticate(r, h)
  \/ session.userId # "" /\ Handle(session.route, session.userId)

SpecAuth == Init /\ [][NextAuth]_vars

-----------------------------------------------------------------------------
(* Registrations and logins, several requests in flight *)

NextUsers ==
  \/ \E b \in RegisterBodies : registerFind(b)
  \/ \E i \in 1..MaxUsers : registerSave(i)
  \/ \E b \in LoginBodies : login(b)

SpecUsers == Init /\ [][NextUsers]_vars

-----------------------------------------------------------------------------
(* One user creating and updating expenses with good and bad bodies *)

GoodBody ==
  [title |-> Value("Lunch"), amount |-> Value(1),
   date |-> Value(At(2024, 12, 30, 1)), category |-> Value("Food")]

\* the good body, and the good body with one field missing, malformed or
\* out of its range
ValidationBodies ==
  {GoodBody}
  \cup {[GoodBody EXCEPT !.title = Absent]}
  \cup {[GoodBody EXCEPT !.amount = a] :
          a \in {Absent, Invalid, Value(0), Value(-1), Value(MaxAmount), Value(MaxAmount + 1)}}
  \cup {[GoodBody EXCEPT !.date = d] :
          d \in {Absent, Invalid, Value(StartClock), Value(StartClock + 1)}}
  \cup {[GoodBody EXCEPT !.category = c] : c \in {Absent, Value("Gifts")}}

ValidationUpdates ==
  {[title |-> Absent, amount |-> a, date |-> d, category |-> c] :
     a \in {Absent, Value(0), Value(MaxAmount), Value(MaxAmount + 1)},
     d \in {Absent, Value(StartClock + 1)},
     c \in {Absent, Value("Gifts"), Value("Travel")}}

NextValid ==
  \/ \E b \in ValidationBodies : nextId <= MaxExpenses /\ createExpense("A", b)
  \/ \E i \in ExpenseIds, b \in ValidationUpdates : updateExpense("A", i, b)
  \/ Tick

SpecValid == Init /\ [][NextValid]_vars

-----------------------------------------------------------------------------
(* Two users creating expenses and one of them reading the list page by page *)

\* The expenses of one date come in the list in the reverse of the order of
\* their creation: createdAt is the time of the insertion, taken as distinct
\* for every expense of the store.

ListBodies ==
  {[title |-> Value("Lunch"), amount |-> Value(1), date |-> Value(d), category |-> Value(c)] :
     d \in {At(2024, 12, 30, 1), At(2024, 12, 31, 1)}, c \in {"Food", "Shopping"}}

PageQueries ==
  {[page |-> p, limit |-> l, category |-> c, startDate |-> Absent, endDate |-> Absent] :
     p \in {Absent, Value(0), Value(1), Value(2), Value(3)},
     l \in {Absent, Value(0), Value(1), Value(2), Value(MaxLimit + 1)},
     c \in {Absent, Value("Food")}}

NextList ==
  \/ \E b \in ListBodies : nextId <= MaxRecords /\ createExpense("A", b)
  \/ nextId <= MaxRecords /\ createExpense("B", GoodBody)
  \/ \E q \in PageQueries : getExpenses("A", q)

SpecList == Init /\ [][NextList]_vars

-----------------------------------------------------------------------------
(* Two users creating expenses and one of them asking for the summary, over *)
(* the turn of the month                                                    *)

\* expenses of the month before, of the first day of the month, of the day
\* before the last, and of the last day of the month at midnight and at noon
SummaryBodies ==
  {[title |-> Value("Lunch"), amount |-> Value(2), date |-> Value(At(2024, 11, 30, 1)),
    category |-> Value("Food")],
   [title |-> Value("Lunch"), amount |-> Value(1), date |-> Value(At(2024, 12, 1, 0)),
    category |-> Value("Food")],
   [title |-> Value("Lunch"), amount |-> Value(4), date |-> Value(At(2024, 12, 30, 1)),
    category |-> Value("Shopping")],
   [title |-> Value("Lunch"), amount |-> Value(1), date |-> Value(At(2024, 12, 31, 0)),
    category |-> Value("Shopping")],
   [title |-> Value("Lunch"), amount |-> Value(2), date |-> Value(At(2024, 12, 31, 1)),
    category |-> Value("Travel")]}

NextSummary ==
  \/ \E b \in SummaryBodies : nextId <= MaxRecords /\ createExpense("A", b)
  \/ nextId <= MaxRecords /\ createExpense("B", GoodBody)
  \/ getExpenseSummary("A")
  \/ Tick

SpecSummary == Init /\ [][NextSummary]_vars

-----------------------------------------------------------------------------
(* One user with expenses in more categories than the top list holds *)

MaxTopRecords == 6   \* expenses created in a behaviour of SpecTop

\* the n-th expense is of the n-th category, in the last day, or of the first
\* category, two days before
TopBodies ==
  IF nextId <= Len(Categories)
  THEN {[title |-> Value("Lunch"), amount |-> Value(a),
         date |-> Value(At(2024, 12, 30, 1)), category |-> Value(Categories[nextId])] :
          a \in {1, 2}}
       \cup {[title |-> Value("Lunch"), amount |-> Value(1),
              date |-> Value(At(2024, 12, 29, 1)), category |-> Value(Categories[1])]}
  ELSE {}

NextTop ==
  \/ \E b \in TopBodies : nextId <= MaxTopRecords /\ createExpense("A", b)
  \/ \E q \in TrendQueries : getExpenseTrends("A", q)
  \/ getExpenseSummary("A")

SpecTop == Init /\ [][NextTop]_vars

-----------------------------------------------------------------------------
(* One user asking for the trends with every kind of days parameter *)

DaysBodies ==
  {[title |-> Value("Lunch"), amount |-> Value(1), date |-> Value(d),
    category |-> Value("Food")] :
     d \in {At(2024, 11, 30, 1), At(2024, 12, 30, 1), At(2024, 12, 31, 1)}}

\* no days, days that is not a number, and days as an integer
AnyDaysQueries ==
  {[days |-> d] : d \in {Absent, Invalid, Value(-1), Value(0), Value(1), Value(DefaultDays)}}

NextDays ==
  \/ \E b \in DaysBodies : nextId <= MaxRecords /\ createExpense("A", b)
  \/ \E q \in AnyDaysQueries : getExpenseTrends("A", q)

SpecDays == Init /\ [][NextDays]_vars

-----------------------------------------------------------------------------
(* A registered user and two owners of expenses, with every handler that    *)
(* reads, answered or rejected by the store                                 *)

\* getExpenseStats when an aggregation of its Promise.all is rejected
getExpenseStatsRejected(userId, rejected, err) ==
  Rejected("getExpenseStats", userId, NoQuery, <<"aggregate", "aggregate">>, rejected, err)

ReadListQueries ==
  ListQueries \cup
    {[page |-> Value(0), limit |-> Absent, category |-> Absent,
      startDate |-> Absent, endDate |-> Absent]}

ReadCategoryQueries ==
  CategoryQueries \cup
    {[startDate |-> Value(At(2025, 1, 1, 0)), endDate |-> Value(At(2024, 12, 30, 0))]}

NextRead ==
  \/ registerFind(AuthRegisterBody)
  \/ registerSave(1)
  \/ \E u \in UserIds, b \in RepeatBodies : nextId <= MaxExpenses /\ createExpense(u, b)
  \/ \E u \in UserIds, q \in ReadCategoryQueries : getCategoryReport(u, q)
  \/ \E u \in UserIds, q \in MonthlyQueries : getMonthlyReport(u, q)
  \/ \E u \in UserIds, q \in TrendQueries : getExpenseTrends(u, q)
  \/ \E u \in UserIds : getExpenseSummary(u)
  \/ \E u \in UserIds, q \in ReadListQueries : getExpenses(u, q)
  \/ \E u \in UserIds, i \in ExpenseIds : getExpenseById(u, i)
  \/ \E u \in UserIds : getExpenseStats(u)
  \/ \E q \in CategoryQueries, err \in StorageErrors : getCategoryReportRejected("A", q, err)
  \/ \E q \in MonthlyQueries, err \in StorageErrors : getMonthlyReportRejected("A", q, err)
  \/ \E q \in TrendQueries, k \in 1..2, err \in StorageErrors :
       getExpenseTrendsRejected("A", q, k, err)
  \/ \E rejected \in {{1}, {4}, {2, 3}}, err \in StorageErrors :
       getExpenseSummaryRejected("A", rejected, err)
  \/ \E rejected \in {{1}, {2}}, err \in StorageErrors :
       getExpenseStatsRejected("A", rejected, err)

SpecRead == Init /\ [][NextRead]_vars

-----------------------------------------------------------------------------
(* Reports query by query, with the writes of the same user in between *)

\* getExpenseTrends up to the answer of its first aggregation: the window is
\* fixed, the daily trends are those of the collection as it is now
trendsDaily(userId, query) ==
  /\ inflight.step \in {"none", "done"}
  /\ LET days == ParseIntOr(query.days, DefaultDays)
         startDate == WindowStart(now, days)
     IN inflight' = [op |-> "expenseTrends", step |-> "daily", userId |-> userId,
                     query |-> query, days |-> days, startDate |-> startDate,
                     dailyTrends |-> DailyTrends(expenses, userId, startDate),
                     first |-> expenses, same |-> TRUE]
  /\ UNCHANGED <<expenses, nextId, now, req, resp, dbCalls, failed, elapsed, repeat>>
  /\ UNCHANGED <<users, pending, session, walk>>

\* getExpenseTrends from the answer of its second aggregation to its response
trendsTop ==
  /\ inflight.op = "expenseTrends"
  /\ inflight.step = "daily"
  /\ req' = Request("expenseTrends", inflight.userId, inflight.query)
  /\ resp' = Respond(200, "Expense trends retrieved successfully",
               TrendsData(
                 inflight.dailyTrends,
                 TopCategories(SelectSeq(expenses, LAMBDA e :
                   Owns(e, inflight.userId) /\ e.date >= inflight.startDate)),
                 inflight.days, inflight.startDate, now))
  /\ dbCalls' = <<"aggregate", "aggregate">>
  /\ failed' = {}
  /\ repeat' = "no"
  /\ walk' = <<>>
  /\ elapsed' = FALSE
  /\ session' = NoSession
  /\ inflight' = [op |-> "expenseTrends", step |-> "done",
                  same |-> (inflight.first = expenses)]
  /\ UNCHANGED <<expenses, nextId, now, users, pending>>

\* getExpenseSummary up to its Promise.all: the four queries are sent, with
\* the month of the clock in the second
summarySend(userId) ==
  /\ inflight.step \in {"none", "done"}
  /\ inflight' = [op |-> "expenseSummary", step |-> "queries", userId |-> userId,
                  clock |-> now, answered |-> {}, results |-> <<0, 0, 0, 0>>,
                  first |-> <<>>, same |-> TRUE]
  /\ UNCHANGED <<expenses, nextId, now, req, resp, dbCalls, failed, elapsed, repeat>>
  /\ UNCHANGED <<users, pending, session, walk>>

\* what the k-th query of getExpenseSummary returns over a store
SummaryQuery(k, store, userId, clock) ==
  CASE k = 1 -> TotalStats(store, userId)
    [] k = 2 -> CurrentMonthStats(store, userId, clock)
    [] k = 3 -> TopCategories(OwnedBy(store, userId))
    [] k = 4 -> RecentExpenses(store, userId)

\* the store answers the k-th query of the summary in flight
summaryAnswer(k) ==
  /\ inflight.op = "expenseSummary"
  /\ inflight.step = "queries"
  /\ k \notin inflight.answered
  /\ inflight' = [inflight EXCEPT
       !.answered = @ \cup {k},
       !.results[k] = SummaryQuery(k, expenses, inflight.userId, inflight.clock),
       !.first = IF inflight.answered = {} THEN expenses ELSE @,
       !.same = IF inflight.answered = {} THEN TRUE ELSE @ /\ inflight.first = expenses]
  /\ UNCHANGED <<expenses, nextId, now, req, resp, dbCalls, failed, elapsed, repeat>>
  /\ UNCHANGED <<users, pending, session, walk>>

\* getExpenseSummary after its Promise.all
summaryRespond ==
  /\ inflight.op = "expenseSummary"
  /\ inflight.step = "queries"
  /\ inflight.answered = 1..4
  /\ req' = Request("expenseSummary", inflight.userId, NoQuery)
  /\ resp' = Respond(200, "Expense summary retrieved successfully",
               SummaryData(inflight.results[1], inflight.results[2],
                           inflight.results[3], inflight.results[4]))
  /\ dbCalls' = <<"aggregate", "aggregate", "aggregate", "find">>
  /\ failed' = {}
  /\ repeat' = "no"
  /\ walk' = <<>>
  /\ elapsed' = FALSE
  /\ session' = NoSession
  /\ inflight' = [op |-> "expenseSummary", step |-> "done", same |-> inflight.same]
  /\ UNCHANGED <<expenses, nextId, now, users, pending>>

ConcurrentUpdate ==
  [amount |-> Value(3), date |-> Absent, title |-> Absent, category |-> Value("Travel")]

NextConcurrent ==
  \/ \E b \in RepeatBodies : nextId <= MaxExpenses /\ createExpense("A", b)
  \/ \E i \in 1..MaxExpenses : updateExpense("A", Value(i), ConcurrentUpdate)
  \/ \E i \in 1..MaxExpenses : deleteExpense("A", Value(i))
  \/ \E q \in TrendQueries : trendsDaily("A", q)
  \/ trendsTop
  \/ summarySend("A")
  \/ \E k \in 1..4 : summaryAnswer(k)
  \/ summaryRespond

SpecConcurrent == Init /\ [][NextConcurrent]_vars

-----------------------------------------------------------------------------
(* Two users creating, updating and deleting expenses, with update bodies   *)
(* of one field, of no field and of a key the schema does not have          *)

NoFields == [title |-> Absent, amount |-> Absent, date |-> Absent, category |-> Absent]

OwnerCreates ==
  {GoodBody,
   [title |-> Value("Taxi"), amount |-> Value(2), date |-> Value(At(2024, 12, 31, 0)),
    category |-> Value("Transportation"), notes |-> Value("cash")]}

OwnerUpdates ==
  {NoFields,
   [NoFields EXCEPT !.amount = Value(3)],
   [NoFields EXCEPT !.title = Value("Dinner"), !.category = Value("Travel")],
   [title |-> Absent, amount |-> Absent, date |-> Absent, category |-> Absent,
    notes |-> Value("paid")]}
  \cup {[title |-> Absent, amount |-> a, date |-> Absent, category |-> Absent,
         userId |-> Value(u)] : a \in {Absent, Value(3)}, u \in UserIds}

NextOwner ==
  \/ \E u \in UserIds, b \in OwnerCreates : nextId <= MaxExpenses /\ createExpense(u, b)
  \/ \E u \in UserIds, i \in ExpenseIds, b \in OwnerUpdates : updateExpense(u, i, b)
  \/ \E u \in UserIds, i \in 1..MaxExpenses : deleteExpense(u, Value(i))

SpecOwner == Init /\ [][NextOwner]_vars

-----------------------------------------------------------------------------
(* Report isolation *)

ReportOps == {"categoryReport", "monthlyReport", "expenseTrends", "expenseSummary"}

\* the records of a store that belong to user u
RecordsOf(store, u) == SelectSeq(store, LAMBDA e : e.userId = u)

\* the answer to report request r over a store at a clock reading
ReportAnswer(store, clock, r) ==
  CASE r.op = "categoryReport" -> CategoryReport(store, r.userId, r.query)
    [] r.op = "monthlyReport" -> MonthlyReport(store, clock, r.userId, r.query)
    [] r.op = "expenseTrends" -> ExpenseTrends(store, clock, r.userId, r.query)
    [] r.op = "expenseSummary" -> ExpenseSummary(store, clock, r.userId)

\* the report requests user u can send
ReportRequests(u) ==
  {Request("categoryReport", u, q) : q \in CategoryQueries}
    \cup {Request("monthlyReport", u, q) : q \in MonthlyQueries}
    \cup {Request("expenseTrends", u, q) : q \in TrendQueries}
    \cup {Request("expenseSummary", u, NoQuery)}

\* a report just sent is the report over the requester's own records alone
AnswerFromOwnRecords ==
  (req.op \in ReportOps /\ ~elapsed) =>
    resp = ReportAnswer(RecordsOf(expenses, req.userId), now, req)

\* whatever the others' records are, every report a user can ask for is the
\* report over that user's records alone
OthersRecordsUnseen ==
  \A u \in UserIds : \A r \in ReportRequests(u) :
    ReportAnswer(expenses, now, r) = ReportAnswer(RecordsOf(expenses, u), now, r)

\* C1: each of the four reports for a user is computed from that user's
\* records only, so that creating, updating or deleting another user's
\* records never changes it
C1_ReportIsolation == AnswerFromOwnRecords /\ OthersRecordsUnseen

\* user A is sent a summary counting A's one expense while the store also
\* holds expenses of user B
C1_Witness ==
  /\ req.op = "expenseSummary" /\ req.userId = "A" /\ resp.status = 200
  /\ resp.data.overview.totalCount = 1
  /\ Len(RecordsOf(expenses, "A")) = 1
  /\ Len(RecordsOf(expenses, "B")) >= 1

-----------------------------------------------------------------------------
(* The sum of the percentages of a category report *)

Abs(x) == IF x < 0 THEN -x ELSE x

IsCategoryReport == req.op = "categoryReport" /\ resp.status = 200

\* the sum of the percentage values of the breakdown, in hundredths of a percent
PercentageSum(data) ==
  SumSeq([i \in 1..Len(data.categoryBreakdown) |-> data.categoryBreakdown[i].percentage])

\* the percentages sum to 100 within 0.01 when there is a record, and the
\* breakdown is empty when there is none
C2_SumWithinOneHundredth ==
  IsCategoryReport =>
    IF resp.data.summary.totalCount > 0
    THEN Abs(PercentageSum(resp.data) - 100 * 100) <= 1
    ELSE resp.data.categoryBreakdown = <<>> /\ PercentageSum(resp.data) = 0

\* C2 (amended): in every category report with totalCount > 0 the percentages
\* sum to 100 within 0.005 times the number of categories (each entry is
\* rounded on its own), and with totalCount = 0 the breakdown is empty and
\* the sum is 0
C2_SumWithinRounding ==
  IsCategoryReport =>
    IF resp.data.summary.totalCount > 0
    THEN 2 * Abs(PercentageSum(resp.data) - 100 * 100)
           <= Len(resp.data.categoryBreakdown)
    ELSE resp.data.categoryBreakdown = <<>> /\ PercentageSum(resp.data) = 0

\* a report over six categories whose percentages sum to 100.02
C2_Witness ==
  /\ IsCategoryReport
  /\ Len(resp.data.categoryBreakdown) = 6
  /\ PercentageSum(resp.data) = 100 * 100 + 2

-----------------------------------------------------------------------------
(* The monthly report *)

IsMonthlyReport == req.op = "monthlyReport" /\ resp.status = 200

\* user u has a record dated in month m of year y
HasRecordIn(u, y, m) ==
  \E i \in 1..Len(expenses) :
    /\ expenses[i].userId = u
    /\ YearOf(expenses[i].date) = y
    /\ MonthOf(expenses[i].date) = m

EnglishMonths ==
  <<"January", "February", "March", "April", "May", "June", "July", "August",
    "September", "October", "November", "December">>

\* C3: the monthly breakdown has exactly 12 entries, for the months 1 to 12
\* in ascending order, each with its month name, and an entry of a month
\* without a record of the user in that year is all zero
C3_TwelveMonths ==
  IsMonthlyReport =>
    LET b == resp.data.monthlyBreakdown IN
    /\ Len(b) = 12
    /\ \A m \in 1..12 :
         /\ m <= Len(b)
         /\ b[m].month = m
         /\ b[m].monthName = EnglishMonths[m]
         /\ ~HasRecordIn(req.userId, resp.data.year, m) =>
              b[m].totalAmount = 0 /\ b[m].count = 0 /\ b[m].avgAmount = 0

\* a report of 2024 with an expense in March and none in April
C3_Witness ==
  /\ IsMonthlyReport
  /\ resp.data.year = 2024
  /\ Len(resp.data.monthlyBreakdown) = 12
  /\ resp.data.monthlyBreakdown[3].count = 1
  /\ resp.data.monthlyBreakdown[4].count = 0

\* C4: monthlyAverage is yearlyTotal / 12 rounded to the cent, half a cent
\* going up, however many months are active
C4_MonthlyAverage ==
  IsMonthlyReport =>
    LET a == resp.data.summary.monthlyAverage
        t == resp.data.summary.yearlyTotal
    IN 2 * 12 * a - 12 <= 2 * t /\ 2 * t < 2 * 12 * a + 12

\* two active months with 0.06 in all: the average is 0.005, sent as 0.01
C4_Witness ==
  /\ IsMonthlyReport
  /\ resp.data.summary.activeMonths = 2
  /\ resp.data.summary.yearlyTotal = 6
  /\ resp.data.summary.monthlyAverage = 1

\* C10: the summary of a monthly report agrees with its 12 entries, the
\* report of a year without a record of the user is all zero, and the
\* request always succeeds
C10_MonthlySummary ==
  req.op = "monthlyReport" =>
    /\ resp.status = 200
    /\ LET b == resp.data.monthlyBreakdown
           s == resp.data.summary
       IN /\ s.yearlyTotal = SumSeq(TotalAmounts(b))
          /\ s.yearlyCount = SumSeq(Counts(b))
          /\ s.activeMonths = Cardinality({m \in 1..Len(b) : b[m].count > 0})
          /\ (\A m \in 1..12 : ~HasRecordIn(req.userId, resp.data.year, m)) =>
               /\ s.yearlyTotal = 0 /\ s.yearlyCount = 0 /\ s.activeMonths = 0
               /\ \A m \in 1..Len(b) :
                    b[m].totalAmount = 0 /\ b[m].count = 0 /\ b[m].avgAmount = 0

\* a report of 2024 with three expenses in two months
C10_Witness ==
  /\ IsMonthlyReport
  /\ resp.data.year = 2024
  /\ resp.data.summary.yearlyCount = 3
  /\ resp.data.summary.activeMonths = 2

-----------------------------------------------------------------------------
(* The trends report *)

IsTrendsReport == req.op = "expenseTrends" /\ resp.status = 200

\* C5: activeDays never exceeds the days of the request window
C5_ActiveDaysWithinDays ==
  IsTrendsReport => resp.data.summary.activeDays <= resp.data.period.days

\* the calendar days on which user u has a record dated at or after start
DaysWithRecord(u, start) ==
  {DayOf(expenses[i].date) :
     i \in {j \in 1..Len(expenses) :
              expenses[j].userId = u /\ expenses[j].date >= start}}

-----------------------------------------------------------------------------
(* Asking for the same report twice *)

\* the answer to the request does not read the clock
ClockFree(r) ==
  \/ r.op = "categoryReport"
  \/ r.op = "monthlyReport" /\ r.query.year.kind = "value" /\ r.query.year.val # 0

-----------------------------------------------------------------------------
(* The category report *)

\* the records of user u dated from start to end, both included
RecordsInRange(u, start, end) ==
  SelectSeq(expenses, LAMBDA e : e.userId = u /\ start <= e.date /\ e.date <= end)

\* the entries of the breakdown for category c
EntriesOf(b, c) == SelectSeq(b, LAMBDA x : x.category = c)

\* the breakdown has one entry for each category with a record in range and
\* none for the others, each entry with the sum, the count and the rounded
\* share of its category
PartitionedByCategory ==
  LET b == resp.data.categoryBreakdown
      in == RecordsInRange(req.userId, resp.data.dateRange.startDate,
                           resp.data.dateRange.endDate)
      grand == SumSeq(Amounts(in))
  IN /\ resp.data.summary.grandTotal = grand
     /\ resp.data.summary.totalCount = Len(in)
     /\ \A c \in CategorySet :
          LET own == SelectSeq(in, LAMBDA e : e.category = c)
              x == EntriesOf(b, c)
          IN IF own = <<>> THEN x = <<>>
             ELSE /\ Len(x) = 1
                  /\ x[1].totalAmount = SumSeq(Amounts(own))
                  /\ x[1].count = Len(own)
                  /\ 2 * grand * x[1].percentage - grand
                       <= 2 * x[1].totalAmount * 100 * 100
                  /\ 2 * x[1].totalAmount * 100 * 100
                       < 2 * grand * x[1].percentage + grand
     /\ \A i \in 1..Len(b) : b[i].category \in CategorySet

\* the records in range are partitioned by category, and avgAmount is
\* exactly totalAmount / count
C8_ExactAverage ==
  IsCategoryReport =>
    /\ PartitionedByCategory
    /\ \A i \in 1..Len(resp.data.categoryBreakdown) :
         LET x == resp.data.categoryBreakdown[i] IN
         x.avgAmount * x.count = x.totalAmount

\* C8 (amended): the records in range are partitioned by category, and
\* avgAmount is totalAmount / count rounded to the cent
C8_RoundedAverage ==
  IsCategoryReport =>
    /\ PartitionedByCategory
    /\ \A i \in 1..Len(resp.data.categoryBreakdown) :
         LET x == resp.data.categoryBreakdown[i] IN
         2 * Abs(x.avgAmount * x.count - x.totalAmount) <= x.count

\* Food 0.01 + 0.02 and Shopping 0.03 in range: two entries of 0.03 and
\* 50.00 % each, grandTotal 0.06, totalCount 3
C8_Witness ==
  /\ IsCategoryReport
  /\ Len(expenses) = 3
  /\ resp.data.summary.grandTotal = 6
  /\ resp.data.summary.totalCount = 3
  /\ Len(resp.data.categoryBreakdown) = 2
  /\ \A i \in 1..2 :
       /\ resp.data.categoryBreakdown[i].totalAmount = 3
       /\ resp.data.categoryBreakdown[i].percentage = 50 * 100
  /\ \E i \in 1..2 :
       /\ resp.data.categoryBreakdown[i].category = "Food"
       /\ resp.data.categoryBreakdown[i].count = 2

\* C9: a category report request without startDate, without endDate or with
\* endDate before startDate is answered 400 "Validation error" with no
\* data, and no query is sent to the store
C9_ValidationFirst ==
  (/\ req.op = "categoryReport"
   /\ \/ req.query.startDate.kind = "absent"
      \/ req.query.endDate.kind = "absent"
      \/ /\ req.query.startDate.kind = "value"
         /\ req.query.endDate.kind = "value"
         /\ req.query.endDate.val < req.query.startDate.val)
  => /\ resp.status = 400
     /\ resp.success = FALSE
     /\ resp.message = "Validation error"
     /\ resp.data = NoData
     /\ dbCalls = <<>>

\* endDate before startDate, asked of a store that holds an expense
C9_Witness ==
  /\ req.op = "categoryReport"
  /\ req.query.startDate.kind = "value"
  /\ req.query.endDate.kind = "value"
  /\ req.query.endDate.val < req.query.startDate.val
  /\ resp.status = 400
  /\ Len(expenses) >= 1

-----------------------------------------------------------------------------
(* The days of the trends report *)

\* the records of user u dated at or after start on calendar day d
RecordsOfDay(u, start, d) ==
  SelectSeq(expenses, LAMBDA e : e.userId = u /\ e.date >= start /\ DayOf(e.date) = d)

\* C11: dailyTrends has one entry for each calendar day on which the user
\* has a record dated at or after the request time minus days, and no
\* other; the entries are in ascending order of date and activeDays is
\* their number
C11_WindowDays ==
  IsTrendsReport =>
    LET d == resp.data.dailyTrends
        start == resp.data.period.endDate - resp.data.period.days * UnitsPerDay
        active == DaysWithRecord(req.userId, start)
    IN /\ resp.data.period.startDate = start
       /\ {d[i].date : i \in 1..Len(d)} = {day * UnitsPerDay : day \in active}
       /\ \A i \in 1..Len(d) :
            LET own == RecordsOfDay(req.userId, start, DayOf(d[i].date)) IN
            /\ d[i].count = Len(own)
            /\ d[i].count >= 1
            /\ d[i].totalAmount = SumSeq(Amounts(own))
       /\ \A i, j \in 1..Len(d) : i < j => d[i].date < d[j].date
       /\ resp.data.summary.activeDays = Len(d)

\* a window of 30 days asked at noon of 31 December over a record of
\* 30 November and a record of 30 December: one entry, for 30 December
C11_Witness ==
  /\ IsTrendsReport
  /\ resp.data.period.days = 30
  /\ Len(expenses) = 2
  /\ {expenses[i].date : i \in 1..2} = {At(2024, 11, 30, 1), At(2024, 12, 30, 1)}
  /\ Len(resp.data.dailyTrends) = 1
  /\ resp.data.dailyTrends[1].date = At(2024, 12, 30, 0)
  /\ resp.data.summary.activeDays = 1

-----------------------------------------------------------------------------
(* Store failures *)

\* the number of store operations a report sends
QueriesOf(op) ==
  CASE op = "categoryReport" -> 1
    [] op = "monthlyReport" -> 1
    [] op = "expenseTrends" -> 2
    [] op = "expenseSummary" -> 4
    [] OTHER -> 0

\* C12: a report one of whose store queries is rejected ends in an error
\* response without data, never in a success, and no query is sent again
C12_FailureIsAnError ==
  req.op \in ReportOps =>
    /\ failed # {} =>
         /\ resp.status >= 400
         /\ resp.success = FALSE
         /\ resp.data = NoData
    /\ resp.success => failed = {}
    /\ Len(dbCalls) <= QueriesOf(req.op)

\* the summary of a user with an expense, when only the last of its four
\* queries is rejected
C12_Witness ==
  /\ req.op = "expenseSummary"
  /\ failed = {4}
  /\ Len(dbCalls) = 4
  /\ resp.status = 500
  /\ Len(expenses) >= 1

-----------------------------------------------------------------------------
(* Rounding *)

\* a is n / d rounded to the nearest unit, a half going up; 0 when d = 0
IsHalfUp(a, n, d) ==
  IF d = 0 THEN a = 0
  ELSE 2 * d * a - d <= 2 * n /\ 2 * n < 2 * d * a + d

\* every average of the entries of b is its total over its count, half up
AveragesHalfUp(b) ==
  \A i \in 1..Len(b) : IsHalfUp(b[i].avgAmount, b[i].totalAmount, b[i].count)

\* C13: every average and percentage of the four reports is the exact
\* quotient of the sums it is made of, rounded to the cent with a half cent
\* going up
C13_HalfUpEverywhere ==
  /\ IsCategoryReport =>
       LET d == resp.data IN
       /\ AveragesHalfUp(d.categoryBreakdown)
       /\ \A i \in 1..Len(d.categoryBreakdown) :
            IsHalfUp(d.categoryBreakdown[i].percentage,
                     d.categoryBreakdown[i].totalAmount * 100 * 100,
                     d.summary.grandTotal)
       /\ IsHalfUp(d.summary.avgExpense, d.summary.grandTotal, d.summary.totalCount)
  /\ IsMonthlyReport =>
       LET d == resp.data IN
       /\ AveragesHalfUp(d.monthlyBreakdown)
       /\ IsHalfUp(d.summary.monthlyAverage, d.summary.yearlyTotal, 12)
  /\ IsTrendsReport =>
       LET d == resp.data IN
       IsHalfUp(d.summary.dailyAverage, d.summary.periodTotal, d.summary.activeDays)
  /\ (req.op = "expenseSummary" /\ resp.status = 200) =>
       LET d == resp.data IN
       IsHalfUp(d.overview.averageExpense, d.overview.totalExpenses,
                d.overview.totalCount)

-----------------------------------------------------------------------------
(* Expenses of another user *)

ByIdOps == {"getExpenseById", "updateExpense", "deleteExpense"}

\* the store holds an expense with this id that user u does not own
OwnedByAnother(u, id) ==
  /\ id.kind = "value"
  /\ \E i \in 1..Len(expenses) : expenses[i].id = id.val /\ expenses[i].userId # u

\* the list answered holds expenses of the caller alone, and counts no more
\* than the caller has
ListsOwnOnly ==
  (req.op = "getExpenses" /\ resp.status = 200) =>
    /\ \A i \in 1..Len(resp.data.expenses) :
         /\ resp.data.expenses[i].userId = req.userId
         /\ \E j \in 1..Len(expenses) : expenses[j] = resp.data.expenses[i]
    /\ resp.data.pagination.totalCount
         <= Cardinality({j \in 1..Len(expenses) : expenses[j].userId = req.userId})

\* a request by id for the expense of another user is answered 404 "Expense
\* not found" whatever else it carries, the store is left as it was, and
\* the list of a user holds and counts that user's expenses alone
C14_AlwaysNotFound ==
  [][/\ (req'.op \in ByIdOps /\ OwnedByAnother(req'.userId, req'.query.id)) =>
          /\ resp'.status = 404
          /\ resp'.message = "Expense not found"
          /\ expenses' = expenses
     /\ ListsOwnOnly']_vars

\* C14 (amended): a request by id for the expense of another user leaves
\* the store as it was and is answered 404 "Expense not found", except an
\* update whose body fails validation, which is answered 400 "Validation
\* error"; the list of a user holds and counts that user's expenses alone
C14_NotFoundOrInvalidBody ==
  [][/\ (req'.op \in ByIdOps /\ OwnedByAnother(req'.userId, req'.query.id)) =>
          /\ expenses' = expenses
          /\ resp'.data = NoData
          /\ IF req'.op = "updateExpense" /\ ~ExpenseUpdateValid(req'.query.body, now)
             THEN resp'.status = 400 /\ resp'.message = "Validation error"
             ELSE resp'.status = 404 /\ resp'.message = "Expense not found"
     /\ ListsOwnOnly']_vars

\* a valid update sent for the expense of another user and answered 404
C14_Witness ==
  /\ req.op = "updateExpense"
  /\ ExpenseUpdateValid(req.query.body, now)
  /\ OwnedByAnother(req.userId, req.query.id)
  /\ resp.status = 404

-----------------------------------------------------------------------------
(* One user for each email *)

\* a registration whose email a user holds when register looks it up is
\* answered 400 "User with this email already exists", and one whose email
\* is taken while it waits for its save is answered 400 as well; neither
\* creates a user nor carries a token
DuplicateRefused ==
  [][(/\ req'.op = "register"
      /\ req'.query.email.kind = "value"
      /\ \E i \in 1..Len(users) : users[i].email = req'.query.email.val)
     => /\ users' = users
        /\ resp'.status = 400
        /\ resp'.success = FALSE
        /\ resp'.data = NoData
        /\ pending' = pending => resp'.message = "User with this email already exists"]_vars

\* no two users of the collection have the same email
EmailsDistinct ==
  \A i, j \in 1..Len(users) : users[i].email = users[j].email => i = j

\* C15: a registration with the email of an existing user is answered 400
\* "User with this email already exists", creates no user and no token, and
\* the collection never holds two users with one email, however the
\* registrations interleave
C15_EmailUnique == DuplicateRefused /\ []EmailsDistinct

\* two registrations with one email were both past their lookup; one has
\* created the user and the other was refused at its save
C15_Witness ==
  /\ req.op = "register"
  /\ resp.status = 400
  /\ failed = {1}
  /\ Len(users) = 1
  /\ users[1].email = req.query.email.val

-----------------------------------------------------------------------------
(* The guarded routes *)

\* the header carries a signed, unexpired token of a user of the collection
GoodHeader(header) ==
  /\ header.kind = "bearer"
  /\ header.token.present
  /\ header.token.signed
  /\ now < header.token.exp
  /\ \E i \in 1..Len(users) : users[i].id = header.token.userId

\* a request goes on to its handler only with a good header and as the
\* user of its token, and the guard answers nothing but 401
GuardDecides ==
  /\ session.userId # "" =>
       GoodHeader(session.header) /\ session.userId = session.header.token.userId
  /\ (session # NoSession /\ ~GoodHeader(session.header)) => session.userId = ""
  /\ req.op = "authenticate" =>
       /\ resp.status = 401
       /\ resp.success = FALSE
       /\ resp.data = NoData

\* C16: a request at a guarded route without a header, with a header that
\* is not a bearer token, with an empty, forged or expired token or with
\* the token of a user the collection does not hold is answered 401, its
\* handler does not run and neither store changes; a handler runs only as
\* the user of the verified token
C16_Guarded ==
  /\ []GuardDecides
  /\ [][/\ (session' # session /\ session' # NoSession /\ ~GoodHeader(session.header)') =>
             /\ req'.op = "authenticate"
             /\ req'.query.header = session'.header
             /\ req'.query.route = session'.route
             /\ resp'.status = 401
             /\ users' = users
             /\ expenses' = expenses
        /\ (req' # req /\ req'.op \in GuardedRoutes) =>
             /\ session.userId # ""
             /\ req'.op = session.route
             /\ req'.userId = session.userId]_vars

\* the signed, unexpired token of a user the collection does not hold,
\* sent to the delete route while the stores hold a user and an expense
C16_Witness ==
  /\ req.op = "authenticate"
  /\ resp.status = 401
  /\ resp.message = "Token is valid but user no longer exists."
  /\ session.route = "deleteExpense"
  /\ Len(users) = 1
  /\ Len(expenses) = 1

-----------------------------------------------------------------------------
(* Login *)

\* the collection holds a user with this email and this password
Credentials(email, password) ==
  \E i \in 1..Len(users) :
    users[i].email = email /\ users[i].password = Hash(password)

\* C17: a login is answered 200 with a token only for the email of a user
\* and that user's password, and a wrong password and an unknown email are
\* both answered 401 "Invalid email or password" without a token, by one
\* and the same response
C17_LoginOnlyWithCredentials ==
  (req.op = "login" /\ req.query.email.kind = "value"
                    /\ req.query.password.kind = "value") =>
    IF Credentials(req.query.email.val, req.query.password.val)
    THEN /\ resp.status = 200
         /\ resp.data.kind = "auth"
         /\ resp.data.token.present /\ resp.data.token.signed
         /\ resp.data.user.email = req.query.email.val
         /\ resp.data.token.userId = resp.data.user.id
    ELSE resp = [status |-> 401, success |-> FALSE,
                 message |-> "Invalid email or password", data |-> NoData]

\* a login with the email of a user and another password, answered 401
C17_Witness ==
  /\ req.op = "login"
  /\ req.query.email.kind = "value"
  /\ \E i \in 1..Len(users) : users[i].email = req.query.email.val
  /\ ~Credentials(req.query.email.val, req.query.password.val)
  /\ resp.status = 401

-----------------------------------------------------------------------------
(* What the store accepts *)

NineCategories ==
  {"Food", "Transportation", "Entertainment", "Healthcare", "Shopping", "Utilities",
   "Education", "Travel", "Other"}

\* the body of a create request misses its title, date or category, has an
\* amount that is no number, not positive or above 1,000,000, a category
\* outside the enumeration, or a date after the clock
BadCreateBody(body, clock) ==
  \/ body.title.kind = "absent"
  \/ body.date.kind = "absent"
  \/ body.category.kind = "absent"
  \/ body.amount.kind # "value"
  \/ body.amount.kind = "value" /\ (body.amount.val <= 0 \/ body.amount.val > 1000000 * 100)
  \/ body.category.kind = "value" /\ body.category.val \notin NineCategories
  \/ body.date.kind = "value" /\ body.date.val > clock

\* every stored expense has an amount above 0 and up to 1,000,000, one of
\* the nine categories, and a date not after the clock
StoredExpensesValid ==
  \A i \in 1..Len(expenses) :
    /\ 0 < expenses[i].amount
    /\ expenses[i].amount <= 1000000 * 100
    /\ expenses[i].category \in NineCategories
    /\ expenses[i].date <= now

\* C18: a create request with a bad body is answered 400 "Validation error"
\* and adds no record, and after any creates and updates every stored
\* expense has a valid amount and category and a date that was not after
\* the time it was written
C18_OnlyValidStored ==
  /\ [][(req'.op = "createExpense" /\ req' # req /\ BadCreateBody(req'.query, now)) =>
          /\ resp'.status = 400
          /\ resp'.message = "Validation error"
          /\ expenses' = expenses]_vars
  /\ []StoredExpensesValid

\* an amount above 1,000,000 refused while the store holds an expense
\* that an update has moved to the largest amount and to another category
C18_Witness ==
  /\ req.op = "createExpense"
  /\ req.query.amount.kind = "value"
  /\ req.query.amount.val > 1000000 * 100
  /\ resp.status = 400
  /\ Len(expenses) = 1
  /\ expenses[1].amount = 1000000 * 100
  /\ expenses[1].category = "Travel"

-----------------------------------------------------------------------------
(* Requests by id *)

\* user u has no expense with this id
NoneOf(u, id) ==
  /\ id.kind = "value"
  /\ ~\E i \in 1..Len(expenses) : expenses[i].id = id.val /\ expenses[i].userId = u

-----------------------------------------------------------------------------
(* C20 *)

\* the page and the limit a request for the list asks for
AskedPage == IF req.query.page.kind = "value" THEN req.query.page.val ELSE 1
AskedLimit == IF req.query.limit.kind = "value" THEN req.query.limit.val ELSE 10

\* the positions in the store of the caller's expenses the request asks for
AskedFor ==
  {i \in 1..Len(expenses) :
     /\ expenses[i].userId = req.userId
     /\ req.query.category.kind = "value" => expenses[i].category = req.query.category.val}

\* how many of the expenses asked for come before the one at position i:
\* those of a later date, and those of its date created after it
RankOf(i) ==
  Cardinality({j \in AskedFor :
                 \/ expenses[j].date > expenses[i].date
                 \/ expenses[j].date = expenses[i].date /\ expenses[j].id > expenses[i].id})

\* how many times the expense with this id was returned by the pages read
TimesReturned(id) ==
  Cardinality({pk \in (1..Len(walk)) \X (1..MaxLimit) :
                 pk[2] <= Len(walk[pk[1]]) /\ walk[pk[1]][pk[2]] = id})

\* C20: a request for the list of expenses with page >= 1 and 1 <= limit <= 100
\* is answered 200 with the expenses of ranks (page-1)*limit up to page*limit
\* (excluded) among the caller's matching expenses ordered by date descending
\* and then by creation descending, at most limit of them; totalCount is the
\* number of matching expenses, totalPages is the least number of pages of
\* limit expenses that hold them all, hasNextPage is page < totalPages,
\* hasPrevPage is page > 1; and when the pages 1..totalPages have been read
\* one after the other over an unchanged store, every matching expense was
\* returned exactly once and nothing else was returned.
C20_Pagination ==
  (/\ req.op = "getExpenses"
   /\ req.query.page.kind \in {"absent", "value"} /\ AskedPage >= 1
   /\ req.query.limit.kind \in {"absent", "value"}
   /\ AskedLimit >= 1 /\ AskedLimit <= 100) =>
    /\ resp.status = 200
    /\ LET items == resp.data.expenses
           pg == resp.data.pagination
           first == (AskedPage - 1) * AskedLimit
       IN /\ Len(items) <= AskedLimit
          /\ \A k \in 1..Len(items) :
               \E i \in AskedFor : RankOf(i) = first + k - 1 /\ items[k] = expenses[i]
          /\ \A i \in AskedFor :
               (RankOf(i) >= first /\ RankOf(i) < first + AskedLimit) =>
                 \E k \in 1..Len(items) : items[k] = expenses[i]
          /\ pg.currentPage = AskedPage
          /\ pg.limit = AskedLimit
          /\ pg.totalCount = Cardinality(AskedFor)
          /\ pg.totalPages * AskedLimit >= pg.totalCount
          /\ pg.totalPages >= 0
          /\ pg.totalPages > 0 => (pg.totalPages - 1) * AskedLimit < pg.totalCount
          /\ pg.hasNextPage = (AskedPage < pg.totalPages)
          /\ pg.hasPrevPage = (AskedPage > 1)
          /\ (walk # <<>> /\ Len(walk) = pg.totalPages) =>
               /\ \A i \in AskedFor : TimesReturned(expenses[i].id) = 1
               /\ \A p \in 1..Len(walk) : \A k \in 1..Len(walk[p]) :
                    \E i \in AskedFor : expenses[i].id = walk[p][k]

\* two pages of one expense each have been read to the last, over a store
\* that holds two expenses of one date and an expense of another user
C20_Witness ==
  /\ req.op = "getExpenses"
  /\ resp.status = 200
  /\ AskedLimit = 1
  /\ Len(walk) = 2
  /\ resp.data.pagination.totalPages = 2
  /\ resp.data.pagination.hasPrevPage
  /\ ~resp.data.pagination.hasNextPage
  /\ \E i, j \in AskedFor : i # j /\ expenses[i].date = expenses[j].date
  /\ \E i \in 1..Len(expenses) : expenses[i].userId # req.userId

-----------------------------------------------------------------------------
(* C21 *)

IsSummary == req.op = "expenseSummary" /\ resp.status = 200

\* the amounts of the records of the user who asked
OwnAmounts == Amounts(RecordsOf(expenses, req.userId))

\* C21: the overview of the summary is computed over all the records of the
\* user whatever their date: totalExpenses is the sum of the amounts,
\* totalCount the number of records, averageExpense the sum divided by the
\* count and rounded to 2 decimals, minExpense and maxExpense the smallest
\* and the largest amount, with minExpense <= averageExpense <= maxExpense;
\* the five are 0 when the user has no record, and totalExpenses > 0 when the
\* user has one.
C21_Overview ==
  IsSummary =>
    LET o == resp.data.overview
        n == Len(OwnAmounts)
        sum == SumSeq(OwnAmounts)
    IN IF n = 0
       THEN /\ o.totalExpenses = 0 /\ o.totalCount = 0 /\ o.averageExpense = 0
            /\ o.minExpense = 0 /\ o.maxExpense = 0
       ELSE /\ o.totalExpenses = sum
            /\ o.totalExpenses > 0
            /\ o.totalCount = n
            /\ 2 * n * o.averageExpense - n <= 2 * sum
            /\ 2 * sum < 2 * n * o.averageExpense + n
            /\ \E i \in 1..n : OwnAmounts[i] = o.minExpense
            /\ \A i \in 1..n : OwnAmounts[i] >= o.minExpense
            /\ \E i \in 1..n : OwnAmounts[i] = o.maxExpense
            /\ \A i \in 1..n : OwnAmounts[i] <= o.maxExpense
            /\ o.minExpense <= o.averageExpense
            /\ o.averageExpense <= o.maxExpense

\* a summary over two records of the user, of different dates and of
\* amounts whose average is not a whole cent, and a record of another user
C21_Witness ==
  /\ IsSummary
  /\ Len(OwnAmounts) = 2
  /\ SumSeq(OwnAmounts) = 3
  /\ resp.data.overview.averageExpense = 2
  /\ resp.data.overview.minExpense = 1
  /\ resp.data.overview.maxExpense = 2
  /\ Len(expenses) = 3

-----------------------------------------------------------------------------
(* C22 *)

\* C22: in every category report the breakdown is sorted by totalAmount in
\* non-increasing order: of two consecutive entries the earlier has a
\* totalAmount greater than or equal to the later's.
C22_BreakdownSorted ==
  IsCategoryReport =>
    \A i \in 1..(Len(resp.data.categoryBreakdown) - 1) :
      resp.data.categoryBreakdown[i].totalAmount
        >= resp.data.categoryBreakdown[i + 1].totalAmount

\* a breakdown of two categories of different totals whose first entry is
\* the category met last in the store
C22_Witness ==
  /\ IsCategoryReport
  /\ Len(resp.data.categoryBreakdown) = 2
  /\ resp.data.categoryBreakdown[1].totalAmount > resp.data.categoryBreakdown[2].totalAmount
  /\ expenses # <<>>
  /\ expenses[1].category = resp.data.categoryBreakdown[2].category
  /\ InRange(expenses[1], resp.data.dateRange.startDate, resp.data.dateRange.endDate)

-----------------------------------------------------------------------------
(* C23 *)

\* C23: in every category report the summary agrees with the breakdown:
\* grandTotal is the sum of the entries' totalAmount and the sum of the
\* amounts of the matched records, totalCount is the sum of the entries'
\* count, categoriesCount is the number of entries, avgExpense is
\* grandTotal / totalCount rounded to 2 decimals, or 0 when totalCount is 0;
\* with no matching record the breakdown is empty and the four are 0.
C23_SummaryOfBreakdown ==
  IsCategoryReport =>
    LET b == resp.data.categoryBreakdown
        s == resp.data.summary
        in == RecordsInRange(req.userId, req.query.startDate.val, req.query.endDate.val)
    IN /\ s.grandTotal = SumSeq([i \in 1..Len(b) |-> b[i].totalAmount])
       /\ s.grandTotal = SumSeq([i \in 1..Len(in) |-> in[i].amount])
       /\ s.totalCount = SumSeq([i \in 1..Len(b) |-> b[i].count])
       /\ s.categoriesCount = Len(b)
       /\ IF s.totalCount = 0
          THEN s.avgExpense = 0
          ELSE /\ 2 * s.totalCount * s.avgExpense - s.totalCount <= 2 * s.grandTotal
               /\ 2 * s.grandTotal < 2 * s.totalCount * s.avgExpense + s.totalCount
       /\ in = <<>> =>
            /\ b = <<>>
            /\ s.grandTotal = 0 /\ s.totalCount = 0
            /\ s.avgExpense = 0 /\ s.categoriesCount = 0

\* two records of one category in range, 0.01 and 0.02, whose average 0.015
\* is rounded to 0.02, and a third record out of the range
C23_Witness ==
  /\ IsCategoryReport
  /\ Len(expenses) = 3
  /\ Len(resp.data.categoryBreakdown) = 1
  /\ resp.data.categoryBreakdown[1].count = 2
  /\ resp.data.summary.totalCount = 2
  /\ resp.data.summary.grandTotal = 3
  /\ resp.data.summary.avgExpense = 2
  /\ resp.data.summary.categoriesCount = 1

-----------------------------------------------------------------------------
(* C24 *)

\* the records of user u dated in month m of year y, at any time of the day
RecordsOfMonth(u, y, m) ==
  SelectSeq(expenses, LAMBDA e :
    e.userId = u /\ YearOf(e.date) = y /\ MonthOf(e.date) = m)

\* C24: the monthly report of a year counts every record of the user dated
\* from January 1 to December 31 of that year, a record dated at any time of
\* the day on December 31 included, and no record of another year; each
\* counted record is counted in the entry of its own calendar month.
C24_WholeYearCounted ==
  IsMonthlyReport =>
    \A m \in 1..12 :
      LET in == RecordsOfMonth(req.userId, resp.data.year, m) IN
      /\ resp.data.monthlyBreakdown[m].count = Len(in)
      /\ resp.data.monthlyBreakdown[m].totalAmount = SumSeq(Amounts(in))

-----------------------------------------------------------------------------
(* C25 *)

\* C25: the currentMonth block of the summary totals and counts every record
\* of the user dated from the first to the last day of the calendar month of
\* the request, a record dated at any time of the day on the last day of the
\* month included, and no record of another month.
C25_WholeMonthCounted ==
  (IsSummary /\ ~elapsed) =>
    LET in == RecordsOfMonth(req.userId, YearOf(now), MonthOf(now)) IN
    /\ resp.data.currentMonth.count = Len(in)
    /\ resp.data.currentMonth.totalAmount = SumSeq(Amounts(in))

-----------------------------------------------------------------------------
(* C26 *)

\* the records the top categories of the last report are taken from: the
\* user's records of the window for the trends, all of them for the summary
TopMatching ==
  IF req.op = "expenseTrends"
  THEN SelectSeq(expenses, LAMBDA e :
         e.userId = req.userId /\ e.date >= resp.data.period.startDate)
  ELSE RecordsOf(expenses, req.userId)

\* the records of TopMatching of category c
TopOfCategory(c) == SelectSeq(TopMatching, LAMBDA e : e.category = c)

\* C26: topCategories of the trends (over the records of the window) and of
\* the summary (over all the records) holds the totals per category of all
\* the matching records, sorted by totalAmount descending and cut to the
\* first 5: it has min(5, number of categories with a record) entries, and
\* no category left out has a totalAmount greater than one that is in.
C26_TopCategories ==
  (IsTrendsReport \/ IsSummary) =>
    LET top == resp.data.topCategories
        cats == {c \in CategorySet : TopOfCategory(c) # <<>>}
        n == Cardinality(cats)
        in == {top[i].category : i \in 1..Len(top)}
    IN /\ Len(top) = IF n < 5 THEN n ELSE 5
       /\ in \subseteq cats
       /\ Cardinality(in) = Len(top)
       /\ \A i \in 1..Len(top) :
            /\ top[i].totalAmount = SumSeq(Amounts(TopOfCategory(top[i].category)))
            /\ top[i].count = Len(TopOfCategory(top[i].category))
       /\ \A i \in 1..(Len(top) - 1) : top[i].totalAmount >= top[i + 1].totalAmount
       /\ \A c \in cats \ in : \A i \in 1..Len(top) :
            SumSeq(Amounts(TopOfCategory(c))) <= top[i].totalAmount

\* the trends of the last day over six categories of the window: five
\* entries, the category met last among them and one of a smaller total
\* left out
C26_Witness ==
  /\ IsTrendsReport
  /\ req.query.days = Value(1)
  /\ Len(TopMatching) = 6
  /\ Cardinality({TopMatching[i].category : i \in 1..6}) = 6
  /\ Len(resp.data.topCategories) = 5
  /\ \E i \in 1..5 : resp.data.topCategories[i].category = "Utilities"
  /\ resp.data.topCategories[1].totalAmount = 2
  /\ resp.data.topCategories[5].totalAmount = 2

-----------------------------------------------------------------------------
(* C27 *)

\* C27: the trends are reported over the default window of 30 days exactly
\* when days is absent or not a number, and without an error; when days is
\* an integer, the window starts that many days before the request and
\* period.days is that integer.
C27_DefaultOnlyWhenMissing ==
  req.op = "expenseTrends" =>
    /\ resp.status = 200
    /\ LET asked == IF req.query.days.kind = "value" THEN req.query.days.val ELSE 30
       IN /\ resp.data.period.days = asked
          /\ resp.data.period.startDate = resp.data.period.endDate - asked * UnitsPerDay

-----------------------------------------------------------------------------
(* C28 *)

\* the requests that read
ReadOps == ReportOps \cup {"getExpenses", "getExpenseById", "getExpenseStats"}

\* C28: the reports, the list of expenses, the lookup of an expense and the
\* statistics are read-only: a step that serves one of them, answered 200 or
\* not, leaves the expense records and the users as they were.
C28_ReadOnly ==
  [][req'.op \in ReadOps => (expenses' = expenses /\ users' = users)]_vars

\* a summary that the store rejected, asked when there are expenses and a
\* user
C28_Witness ==
  /\ req.op = "expenseSummary"
  /\ resp.status = 500
  /\ failed # {}
  /\ Len(expenses) = 2
  /\ users # <<>>

-----------------------------------------------------------------------------
(* C29 *)

\* the queries of the report just answered all read the same collection
OneSnapshot == inflight.step = "done" /\ inflight.same

\* the sum of the counts of the top categories
TopCount == SumSeq(Counts(resp.data.topCategories))
\* the sum of the totals of the top categories
TopTotal == SumSeq(TotalAmounts(resp.data.topCategories))

\* the blocks of the response tell of one and the same set of records
BlocksAgree ==
  /\ (IsTrendsReport /\ Len(resp.data.topCategories) < 5) =>
       /\ resp.data.summary.periodCount = TopCount
       /\ resp.data.summary.periodTotal = TopTotal
  /\ (IsSummary /\ Len(resp.data.topCategories) < 5) =>
       /\ resp.data.overview.totalCount = TopCount
       /\ resp.data.overview.totalExpenses = TopTotal
  /\ IsSummary =>
       /\ Len(resp.data.recentExpenses) =
            IF resp.data.overview.totalCount < 5 THEN resp.data.overview.totalCount ELSE 5
       /\ resp.data.currentMonth.count <= resp.data.overview.totalCount
       /\ resp.data.currentMonth.totalAmount <= resp.data.overview.totalExpenses

\* C29: a report is not a snapshot of one instant under concurrent writes.
\* When no write of the user comes between the store queries of a summary
\* (four queries) or of a trend report (two queries), the blocks of the
\* response agree; when a createExpense, updateExpense or deleteExpense comes
\* between them the response can combine blocks computed from different sets
\* of records, as the witness shows.
C29_AgreeWithoutWrites ==
  (inflight.step = "done" /\ req.op = inflight.op /\ OneSnapshot) => BlocksAgree

\* a trend report whose second query read a collection with one expense more
\* than its first: periodCount is 1 and the top categories count 2, of fewer
\* than 6 categories
C29_Witness ==
  /\ IsTrendsReport
  /\ inflight.step = "done"
  /\ inflight.op = "expenseTrends"
  /\ ~OneSnapshot
  /\ resp.data.summary.periodCount = 1
  /\ TopCount = 2
  /\ Len(resp.data.topCategories) < 6

-----------------------------------------------------------------------------
(* C30 *)

\* the fields a body of an update may carry
UpdatableFields == {"title", "amount", "date", "category", "notes"}

\* the body carries a value for field k
Supplied(body, k) == k \in DOMAIN body /\ body[k].kind = "value"

\* the expense as the update with this body must leave it: the fields
\* supplied take their new value, the others, the id and the owner stay.
\* Records hold the fields of the API and the owner; the timestamps that the
\* store keeps by itself are not part of them.
Updated(e, body) ==
  [k \in DOMAIN e |->
     IF k \in UpdatableFields /\ Supplied(body, k)
     THEN (IF k = "notes" THEN body[k] ELSE body[k].val)
     ELSE e[k]]

====
